---- MODULE Spec2Model ----
(***************************************************************************)
(* Model of the conversation-context manager of the Discord bot            *)
(* (bot/src/services/context.ts) together with the router handlers that    *)
(* drive it (handlers/messages.ts, handlers/slashCommands.ts) and the text *)
(* gateway call (services/griptape.ts); and of the voice router            *)
(* (handlers/voice.ts) and the voice gateway (services/pipecat.ts).        *)
(*                                                                         *)
(* Every handler invocation is an asynchronous task (a process of Procs).  *)
(* A task runs without interruption from one `await` to the next, so each  *)
(* action below is the code between two suspension points: it is enabled   *)
(* when the awaited cache, database or gateway call completes, and its     *)
(* parameter `ok` says whether that call succeeded or threw.               *)
(***************************************************************************)
EXTENDS Integers, Sequences, FiniteSets, TLC

\* ---------------------------------------------------------------- bounds
MaxOps == 2          \* handler invocations started in one behaviour of Spec
SeqMaxOps == 3       \* handler invocations started in one behaviour of SeqSpec
MaxFaults == 1       \* failing store or gateway calls in one behaviour of Spec
MaxTicks == 2        \* clock advances in one behaviour of SeqSpec
TickStep == 1800     \* seconds per clock advance
CoolMaxOps == 3      \* slash-command invocations in one behaviour of CoolSpec
CoolMaxTicks == 4    \* clock advances in one behaviour of CoolSpec
CoolTickStep == 1000 \* milliseconds per clock advance of CoolSpec
LongMaxOps == 2      \* conversational turns in one behaviour of LongSpec
MaxPairs == 6        \* earlier turns of the conversation LongSpec starts from
CmdMaxOps == 2       \* command invocations in one behaviour of CmdSpec
MsgMaxOps == 1       \* messages in one behaviour of MsgSpec
VoiceMaxEvents == 4  \* voice events in one behaviour of VoiceSpec
PipeMaxCalls == 3    \* voice-gateway calls in one behaviour of PipeSpec
GateMaxOps == 3      \* interactions in one behaviour of GateSpec
FilterMaxEvents == 2 \* ignored voice-state events in one behaviour of FilterSpec

\* ------------------------------------------------------ program constants
CONTEXT_TTL == 3600
PREFERENCES_TTL == 86400
CHAT_COOLDOWN == 3          \* seconds, /chat
SETTINGS_COOLDOWN == 2      \* seconds, /settings
HISTORY_WINDOW == 10        \* history turns sent to the text service

\* --------------------------------------------------------------- domains
\* One task of the message router (MessageCreate) and one of the slash-command
\* router (InteractionCreate); a task's name is the interactionType it stamps.
Procs == {"message", "slash"}
Users == {"u1", "u2"}
Channels == {"c1"}
Keys == Users \X Channels

\* u1 is a registered user (a users row exists, e.g. written through
\* ContextService.createUser); u2 is brand-new.
RegisteredUsers == {"u1"}

None == <<>>
Some(x) == <<x>>
IsSome(o) == o # <<>>
Val(o) == o[1]

\* ------------------------------------------------------------ preferences
DefaultPreferences ==
  [language |-> "en", textModel |-> "gpt-4", autoJoinVoice |-> TRUE,
   notificationSettings |-> [reminders |-> TRUE, mentions |-> TRUE, dms |-> TRUE]]

\* { ...currentPreferences, ...preferences }
MergePreferences(current, partial) ==
  [f \in (DOMAIN current) \cup (DOMAIN partial) |->
     IF f \in DOMAIN partial THEN partial[f] ELSE current[f]]

\* handleSettingsCommand: if (language) ...; if (autoJoinVoice !== null) ...
ApplySettings(p0, lang, ajv) ==
  LET p1 == IF IsSome(lang) THEN [p0 EXCEPT !.language = Val(lang)] ELSE p0
  IN  IF IsSome(ajv) THEN [p1 EXCEPT !.autoJoinVoice = Val(ajv)] ELSE p1

\* /settings update language:fr (auto_join_voice not given)
SettingsInputs == { <<Some("fr"), None>> }

\* ------------------------------------------------- contexts and their JSON
\* A Date is its epoch second t; JSON.stringify turns it into an ISO string,
\* written [iso |-> t]; new Date(string) turns it back.
ToISO(t) == [iso |-> t]
FromISO(s) == s.iso

FreshContext(u, c, preferences, t) ==
  [userId |-> u, channelId |-> c, interactionType |-> "message",
   history |-> <<>>, tools |-> <<>>, preferences |-> preferences, timestamp |-> t]

Turn(role, content, t, via) ==
  [role |-> role, content |-> content, timestamp |-> t,
   metadata |-> [interactionType |-> via]]

\* JSON.stringify(context)
Serialize(c) ==
  [c EXCEPT !.history = [i \in DOMAIN c.history |->
                           [c.history[i] EXCEPT !.timestamp = ToISO(@)]],
            !.timestamp = ToISO(@)]

\* JSON.parse(cached) followed by the Date revival of getContext
ParseContext(s) ==
  [s EXCEPT !.history = [i \in DOMAIN s.history |->
                           [s.history[i] EXCEPT !.timestamp = FromISO(@)]],
            !.timestamp = FromISO(@)]

\* The content the text service answers to message m with.
AIContent(m) == 100 + m

\* The message handed to processMessage: a template and what is put into it.
\* A conversational turn hands over the user's text as it is.
VerbatimPrompt(content) == [template |-> "$1", args |-> <<content>>]

WeatherPrompt(location) ==
  [template |-> "What's the weather like in $1?", args |-> <<location>>]

\* /remind message:<message> time:<time>
SlashRemindPrompt(message, timeString) ==
  [template |-> "Create a reminder for: \"$1\" at time: \"$2\". Parse the time and return a JSON response with the scheduled time.",
   args |-> <<message, timeString>>]

\* !remind <args>
RemindPrompt(args) ==
  [template |-> "Create a reminder for: \"$1\". Parse the time and return a JSON response with the scheduled time.",
   args |-> <<args>>]

\* !search <args>
SearchPrompt(args) ==
  [template |-> "Search for: \"$1\". Provide a summary of the most relevant results.",
   args |-> <<args>>]

\* !translate <args>
TranslatePrompt(args) ==
  [template |-> "Translate: \"$1\". If a target language is specified, translate to that language. Otherwise, detect the language and translate to English.",
   args |-> <<args>>]

\* !time [args]
TimePrompt(args) ==
  IF args = <<>> THEN [template |-> "What is the current time?", args |-> <<>>]
  ELSE [template |-> "What is the current time in $1?", args |-> <<args[1]>>]

Min(a, b) == IF a < b THEN a ELSE b

\* Variant: the first turns of the history are sent.
WireHistory_head(h) == SubSeq(h, 1, Min(HISTORY_WINDOW, Len(h)))

\* context.history.slice(-10): a copy of the last turns, the array is not
\* changed.
WireHistory(h) ==
  IF Len(h) <= HISTORY_WINDOW THEN h
  ELSE SubSeq(h, Len(h) - HISTORY_WINDOW + 1, Len(h))

VARIABLES
  pc,         \* position of each task
  op,         \* the event a task is handling
  ret,        \* caller getUserPreferences returns to
  ctx,        \* the handler's context object
  prefs,      \* local `preferences` of getUserPreferences
  pend,       \* preferences object passed to updateUserPreferences
  reply,      \* reply sent to the user by the task
  ctxCache,   \* redis  context:<user>:<channel>
  prefCache,  \* redis  preferences:<user>
  ctxDb,      \* table  conversation_contexts
  usersDb,    \* table  users (preferences column)
  now,        \* wall clock, seconds
  ticks,      \* clock advances so far
  nops,       \* handler invocations started so far
  obs,        \* history variable: what happened in the task's invocation
  got,        \* history variable: the context getContext returned
  faults,     \* failing calls so far
  lastWrite,  \* history variable: last write to a key's cache entry
  cooldowns,  \* SlashCommandHandler.cooldowns: command -> key -> timestamp
  dateNow,    \* Date.now(), milliseconds
  dispatched, \* history variable: when a user's command was last dispatched
  reminders,  \* table  reminders
  msg,        \* the message the message router is handling
  voiceSessions,  \* VoiceHandler.activeSessions: guild -> session
  members,        \* the users in each voice channel
  joined,         \* history variable: joinVoiceChannel calls since the last leave
  vlast,          \* history variable: the last voice event and what it did
  nvoice,         \* voice events so far
  pipeSessions,   \* PipecatService.activeSessions: key -> session
  plast,          \* history variable: the last call of the voice gateway
  npipe,          \* calls of the voice gateway so far
  inflight        \* the interactions handleInteraction has taken up, in order

locals == <<pc, op, ret, ctx, prefs, pend, reply>>
stores == <<ctxCache, prefCache, ctxDb, usersDb>>
clock == <<now, ticks>>
router == <<cooldowns, dateNow, dispatched>>
voice == <<voiceSessions, members, joined, vlast, nvoice>>
pipecat == <<pipeSessions, plast, npipe>>
annex == <<msg, voice, pipecat, inflight>>
vars == <<pc, op, ret, ctx, prefs, pend, reply, ctxCache, prefCache, ctxDb,
          usersDb, now, ticks, nops, faults, obs, got, lastWrite,
          cooldowns, dateNow, dispatched, reminders, msg,
          voiceSessions, members, joined, vlast, nvoice,
          pipeSessions, plast, npipe, inflight>>

KeyOf(p) == <<op[p].userId, op[p].channelId>>


\* ------------------------------------------------------------- the stores
\* Variant: an entry never expires.
CacheGet_forever(cache, k) ==
  IF IsSome(cache[k]) THEN Some(Val(cache[k]).val) ELSE None

\* redis GET: an entry is visible until its expiry time.
CacheGet(cache, k) ==
  IF IsSome(cache[k]) /\ now < Val(cache[k]).exp THEN Some(Val(cache[k]).val) ELSE None

\* redis SETEX key ttl value
CacheSetEx(cache, k, ttl, v) ==
  [cache EXCEPT ![k] = Some([val |-> v, exp |-> now + ttl])]

\* Variant: the key is left in place.
CacheDel_noop(cache, k) == cache

\* Variant: every key of the channel is deleted (DEL by pattern).
CacheDel_channel(cache, k) ==
  [k2 \in DOMAIN cache |-> IF k2[2] = k[2] THEN None ELSE cache[k2]]

\* redis DEL key
CacheDel(cache, k) == [cache EXCEPT ![k] = None]

\* The row storeContextInDatabase upserts.
ContextRow(c) ==
  [interactionType |-> c.interactionType, history |-> Serialize(c).history,
   tools |-> c.tools, preferences |-> c.preferences]

\* conversation_contexts.user_id REFERENCES users(id): the upsert is rejected
\* when the user has no users row.
UpsertViolatesFK(u) == ~IsSome(usersDb[u])

\* users.username and users.discriminator are NOT NULL without a default, and
\* the default insert of getUserPreferences supplies only (id, preferences).
InsertViolatesNotNull == TRUE

\* ------------------------------------------------------------ task records
NoOp == [kind |-> "none", userId |-> "u1", channelId |-> "c1", content |-> 0,
         via |-> "message", lang |-> None, ajv |-> None, args |-> <<>>]
NoReply == [kind |-> "none", content |-> 0]
ErrorReply == [kind |-> "error", content |-> 0]
NoObs == [miss |-> FALSE, cacheErr |-> FALSE, dbErr |-> FALSE, getFailed |-> FALSE,
          gwCalls |-> 0, gwFailed |-> FALSE, updFailed |-> FALSE, upserts |-> 0,
          upsertErr |-> FALSE, afterClear |-> FALSE, clearedHist |-> <<>>,
          secondClear |-> FALSE,
          gupCalls |-> 0, gupVal |-> DefaultPreferences, gupSrc |-> "none",
          gupErr |-> FALSE, before |-> None, wire |-> <<>>,
          deferred |-> FALSE, prompt |-> [template |-> "", args |-> <<>>],
          expired |-> FALSE]
NoContext == FreshContext("u1", "c1", DefaultPreferences, 0)
NoWrite == [op |-> "none", hist |-> <<>>, at |-> 0, cleared |-> FALSE]

\* ------------------------------------------------ slash-command cooldowns
\* The commands of the slash router that the model dispatches.
Commands == {"chat", "settings"}

\* command.cooldown
Cooldown(cmd) == IF cmd = "chat" THEN CHAT_COOLDOWN ELSE SETTINGS_COOLDOWN

\* Variant: the key names the command only.
CooldownKey_command(u, cmd) == <<cmd>>

\* `${interaction.user.id}-${interaction.commandName}`
CooldownKey(u, cmd) == <<u, "-", cmd>>

CooldownKeys == {CooldownKey(u, cmd) : u \in Users, cmd \in Commands}

\* ------------------------------------------------------ incoming messages
\* A message is who wrote it (a bot or not), where (a DM channel, a guild
\* where the bot may send messages, a guild where it may not), how it opens
\* (the prefix, a mention of the bot, neither) and the rest of its text: a
\* sequence of words separated by blanks and line breaks, without blanks at
\* either end.
BotId == "bot"
Whitespace == {" ", "\n"}
MentionText == "<@bot>"
FirstWords == {"help", "ping", "info", "status", "clear", "reset", "remind", "time",
               "weather", "search", "translate", "Weather", "hello"}
Bodies ==
  {<<>>} \cup {<<w>> : w \in FirstWords}
         \cup {<<w, " ", "paris">> : w \in FirstWords}
         \cup {<<w, " ", "paris", "\n", "france">> : w \in FirstWords}
Leads == {[kind |-> "prefix"], [kind |-> "mention", id |-> BotId], [kind |-> "none"]}
Places == {"dm", "guild", "guild_noperm"}
Messages == [authorBot : BOOLEAN, place : Places, lead : Leads, body : Bodies]
NoMessage == [authorBot |-> FALSE, place |-> "dm", lead |-> [kind |-> "none"],
              body |-> <<>>]

\* client.user when the MessageHandler is constructed: the client has not
\* logged in yet.
ClientUserAtConstruction == None

\* `${this.client.user?.id}` inside MENTION_PATTERN
MentionPatternId ==
  IF IsSome(ClientUserAtConstruction) THEN Val(ClientUserAtConstruction)
  ELSE "undefined"

\* this.MENTION_PATTERN.test(message.content)
IsMentioned(m) == m.lead.kind = "mention" /\ m.lead.id = MentionPatternId

\* message.content.startsWith(this.BOT_PREFIX)
IsPrefixed(m) == m.lead.kind = "prefix"

\* message.channel.type === 1
IsDM(m) == m.place = "dm"

\* message.content after its prefix, if it has one
RawContent(m) ==
  CASE m.lead.kind = "prefix" -> m.body
    [] m.lead.kind = "mention" ->
         IF m.body = <<>> THEN <<MentionText>> ELSE <<MentionText, " ">> \o m.body
    [] OTHER -> m.body

\* !message.content
IsEmptyMessage(m) == m.lead.kind = "none" /\ m.body = <<>>

\* `content` of handleMessage: the text without the matched mention or the
\* prefix, trimmed; the whole text of a DM that has neither.
StrippedContent(m) ==
  IF IsMentioned(m) \/ IsPrefixed(m) THEN m.body ELSE RawContent(m)

\* String.prototype.toLowerCase on the words of the model
ToLowerCase(w) == IF w = "Weather" THEN "weather" ELSE w

\* a token matched by \w+
IsWord(a) == a \notin Whitespace /\ a # MentionText

validCommands ==
  {"help", "ping", "info", "status", "clear", "reset", "remind", "time",
   "weather", "search", "translate"}

\* content.match(/^(\w+)(?:\s+(.+))?$/) and validCommands.includes: the
\* first word, then either the end of the text or white space followed by a
\* non-empty rest in which `.` matches everything but a line break.
IsCommand(content) ==
  /\ content # <<>>
  /\ IsWord(content[1])
  /\ \/ Len(content) = 1
     \/ \E j \in 2..(Len(content) - 1) :
          /\ \A i \in 2..j : content[i] \in Whitespace
          /\ \A i \in (j + 1)..Len(content) : content[i] # "\n"
  /\ ToLowerCase(content[1]) \in validCommands

\* content.split(/\s+/)
SplitWords(content) == SelectSeq(content, LAMBDA a : a \notin Whitespace)

\* parts.slice(1).join(' '): nothing, or the words after the first
JoinedArgs(parts) == IF Len(parts) <= 1 THEN <<>> ELSE <<Tail(parts)>>

\* ----------------------------------------------------------------- voice
Guilds == {"g1", "g2"}
VoiceChannels == {"v1", "v2", "w1"}
GuildOf(ch) == IF ch = "w1" THEN "g2" ELSE "g1"

\* VOICE_CHANNEL_AUTO_JOIN=true
VOICE_CHANNEL_AUTO_JOIN == TRUE

NoVoiceEvent == [kind |-> "none", guildId |-> "g1", channelId |-> "v1",
                 joinCall |-> FALSE, left |-> FALSE]
\* The keys of PipecatService.activeSessions: guild ids, and a session id
\* that is no guild's id.
SessionIds == Guilds \cup {"s9"}

\* The sessions handed to startSession.
SessionInputs ==
  {[guildId |-> GuildOf(ch), channelId |-> ch, userId |-> u, isActive |-> FALSE] :
     ch \in VoiceChannels, u \in Users}

NoCall == [call |-> "none", id |-> "g1", ok |-> TRUE, threw |-> FALSE,
           wasTracked |-> FALSE]

\* No invocation is in flight, the clocks are at their origin.
Idle ==
  /\ pc = [p \in Procs |-> "idle"]
  /\ op = [p \in Procs |-> NoOp]
  /\ ret = [p \in Procs |-> "none"]
  /\ ctx = [p \in Procs |-> NoContext]
  /\ prefs = [p \in Procs |-> DefaultPreferences]
  /\ pend = [p \in Procs |-> DefaultPreferences]
  /\ reply = [p \in Procs |-> NoReply]
  /\ usersDb = [u \in Users |-> IF u \in RegisteredUsers THEN Some(DefaultPreferences) ELSE None]
  /\ now = 0
  /\ ticks = 0
  /\ nops = 0
  /\ obs = [p \in Procs |-> NoObs]
  /\ got = [p \in Procs |-> NoContext]
  /\ faults = 0
  /\ cooldowns = [cmd \in Commands |-> [k \in CooldownKeys |-> None]]
  /\ dateNow = 0
  /\ dispatched = [i \in Users \X Commands |-> None]
  /\ reminders = {}
  /\ msg = NoMessage
  /\ voiceSessions = [g \in Guilds |-> None]
  /\ members = [ch \in VoiceChannels |-> {}]
  /\ joined = [g \in Guilds |-> <<>>]
  /\ vlast = NoVoiceEvent
  /\ nvoice = 0
  /\ pipeSessions = [k \in SessionIds |-> None]
  /\ plast = NoCall
  /\ npipe = 0
  /\ inflight = <<>>

\* The bot has just started: the cache and conversation_contexts are empty.
Init ==
  /\ Idle
  /\ ctxCache = [k \in Keys |-> None]
  /\ prefCache = [u \in Users |-> None]
  /\ ctxDb = [k \in Keys |-> None]
  /\ lastWrite = [k \in Keys |-> NoWrite]

\* Variant: the error of one invocation ends every invocation in flight.
Throw_all(p) ==
  /\ pc' = [q \in Procs |-> IF pc[q] = "idle" THEN "idle" ELSE "done"]
  /\ reply' = [q \in Procs |-> IF pc[q] = "idle" THEN reply[q] ELSE ErrorReply]

\* The handler's catch block: one error reply, the invocation ends.
Throw(p) ==
  /\ pc' = [pc EXCEPT ![p] = "done"]
  /\ reply' = [reply EXCEPT ![p] = ErrorReply]

\* ------------------------------------------------------------ invocations
Begin(p, o, label, r) ==
  /\ pc[p] = "idle"
  /\ nops' = nops + 1
  /\ op' = [op EXCEPT ![p] = o]
  /\ pc' = [pc EXCEPT ![p] = label]
  /\ ret' = [ret EXCEPT ![p] = r]
  /\ reply' = [reply EXCEPT ![p] = NoReply]
  /\ obs' = [obs EXCEPT ![p] =
               [NoObs EXCEPT !.before = CacheGet(ctxCache, <<o.userId, o.channelId>>)]]
  /\ UNCHANGED <<ctx, prefs, pend, got, stores, clock, lastWrite>>

\* A conversational turn arrives (free-form message, /chat, /ask, /search);
\* the handler defers / shows typing and calls getContext.
StartChat(p, u, c) ==
  Begin(p, [NoOp EXCEPT !.kind = "chat", !.userId = u, !.channelId = c,
                        !.content = nops + 1, !.via = p], "gc_get", "gc")

\* `!clear` / `!reset`: handleClearCommand calls clearContext.
StartClear(p, u, c) ==
  p = "message" /\
  Begin(p, [NoOp EXCEPT !.kind = "clear", !.userId = u, !.channelId = c], "cc_del", "none")

\* `/settings update`: the handler first calls getUserPreferences.
StartSettings(p, u, lang, ajv) ==
  p = "slash" /\
  Begin(p, [NoOp EXCEPT !.kind = "settings", !.userId = u, !.lang = lang, !.ajv = ajv],
        "gp_get", "hs")

\* The handler has returned; the task can take the next event.
Finish(p) ==
  /\ pc[p] = "done"
  /\ pc' = [pc EXCEPT ![p] = "idle"]
  /\ op' = [op EXCEPT ![p] = NoOp]
  /\ ret' = [ret EXCEPT ![p] = "none"]
  /\ ctx' = [ctx EXCEPT ![p] = NoContext]
  /\ prefs' = [prefs EXCEPT ![p] = DefaultPreferences]
  /\ pend' = [pend EXCEPT ![p] = DefaultPreferences]
  /\ reply' = [reply EXCEPT ![p] = NoReply]
  /\ obs' = [obs EXCEPT ![p] = NoObs]
  /\ got' = [got EXCEPT ![p] = NoContext]
  /\ UNCHANGED <<stores, clock, nops, lastWrite>>

\* Time passes.
Tick ==
  /\ ticks < MaxTicks
  /\ ticks' = ticks + 1
  /\ now' = now + TickStep
  /\ UNCHANGED <<locals, stores, nops, obs, got, lastWrite>>


\* ------------------------------------------------- ContextService.getContext
\* Variant: the user turn is not pushed before the request is posted.
HandlerPush_skip(p, c) ==
  [c EXCEPT !.interactionType = op[p].via, !.timestamp = now]

\* The handler receives the context c from getContext, stamps it, pushes the
\* user turn and posts the request to the text service (processMessage).
HandlerPush(p, c) ==
  [c EXCEPT !.interactionType = op[p].via,
            !.timestamp = now,
            !.history = Append(@, Turn("user", op[p].content, now, op[p].via))]

\* The context object when the handler calls processMessage: a
\* conversational turn has pushed the user turn, a command handler passes on
\* what getContext returned.
Posted(p, c) == IF op[p].kind = "chat" THEN HandlerPush(p, c) ELSE c

\* The message the handler passes to processMessage.
PromptOf(p) ==
  CASE op[p].kind = "weather" -> WeatherPrompt(op[p].args[1])
    [] op[p].kind = "remind" /\ op[p].via = "slash" ->
         SlashRemindPrompt(op[p].args[1], op[p].args[2])
    [] op[p].kind = "remind" /\ op[p].via = "message" -> RemindPrompt(op[p].args[1])
    [] op[p].kind = "search" -> SearchPrompt(op[p].args[1])
    [] op[p].kind = "translate" -> TranslatePrompt(op[p].args[1])
    [] op[p].kind = "time" -> TimePrompt(op[p].args)
    [] OTHER -> VerbatimPrompt(op[p].content)

\* The processMessage calls the handler makes once it has the context:
\* handleStatusCommand makes none, it goes on to its reply.
Posts(p) == IF op[p].kind = "status" THEN 0 ELSE 1

ContextReturned(p, c) ==
  /\ got' = [got EXCEPT ![p] = c]
  /\ ctx' = [ctx EXCEPT ![p] = Posted(p, c)]
  /\ pc' = [pc EXCEPT ![p] = CASE op[p].kind = "chat" -> "pm_post"
                               [] op[p].kind = "status" -> "st_reply"
                               [] OTHER -> "cmd_post"]

\* `if (cached)`
IsCacheHit(cached) == IsSome(cached)

\* await this.redis.get(key)
GetContextRead(p, ok) ==
  /\ pc[p] = "gc_get"
  /\ LET k == KeyOf(p)
         cached == CacheGet(ctxCache, k)
     IN
     IF ~ok THEN
       /\ Throw(p)
       /\ obs' = [obs EXCEPT ![p].cacheErr = TRUE, ![p].getFailed = TRUE]
       /\ UNCHANGED <<ctx, got>>
     ELSE IF IsCacheHit(cached) THEN
       /\ ContextReturned(p, ParseContext(Val(cached)))
       /\ obs' = [obs EXCEPT ![p].gwCalls = @ + Posts(p),
                             ![p].prompt = PromptOf(p),
                             ![p].wire = WireHistory(
                                Posted(p, ParseContext(Val(cached))).history),
                             ![p].afterClear = lastWrite[k].cleared,
                             ![p].clearedHist = lastWrite[k].hist]
       /\ UNCHANGED reply
     ELSE
       /\ pc' = [pc EXCEPT ![p] = "gp_get"]
       /\ obs' = [obs EXCEPT ![p].miss = TRUE,
                             ![p].expired = IsSome(ctxCache[k]),
                             ![p].afterClear = lastWrite[k].cleared,
                             ![p].clearedHist = lastWrite[k].hist]
       /\ UNCHANGED <<ctx, got, reply>>
  /\ UNCHANGED <<op, ret, prefs, pend, stores, clock, nops, lastWrite>>

\* await this.redis.setEx(key, CONTEXT_TTL, JSON.stringify(context)); return context
GetContextStore(p, ok) ==
  /\ pc[p] = "gc_set"
  /\ LET k == KeyOf(p) IN
     IF ~ok THEN
       /\ Throw(p)
       /\ obs' = [obs EXCEPT ![p].cacheErr = TRUE, ![p].getFailed = TRUE]
       /\ UNCHANGED <<ctx, got, ctxCache, lastWrite>>
     ELSE
       /\ ctxCache' = CacheSetEx(ctxCache, k, CONTEXT_TTL, Serialize(ctx[p]))
       /\ lastWrite' = [lastWrite EXCEPT ![k] = [op |-> "create", hist |-> <<>>, at |-> now, cleared |-> FALSE]]
       /\ ContextReturned(p, ctx[p])
       /\ obs' = [obs EXCEPT ![p].gwCalls = @ + Posts(p),
                             ![p].prompt = PromptOf(p),
                             ![p].wire = WireHistory(Posted(p, ctx[p]).history)]
       /\ UNCHANGED reply
  /\ UNCHANGED <<op, ret, prefs, pend, prefCache, ctxDb, usersDb, clock, nops>>

\* ------------------------------------------ ContextService.getUserPreferences
\* getUserPreferences returns v to its caller, which runs to its next await.
GupReturn(p, v) ==
  CASE ret[p] = "gc" ->
         \* getContext builds the new context and writes it to the cache
         /\ ctx' = [ctx EXCEPT ![p] = FreshContext(op[p].userId, op[p].channelId, v, now)]
         /\ pc' = [pc EXCEPT ![p] = "gc_set"]
         /\ UNCHANGED <<ret, pend>>
    [] ret[p] = "hs" ->
         \* handleSettingsCommand applies the options, calls updateUserPreferences,
         \* which calls getUserPreferences again
         /\ pend' = [pend EXCEPT ![p] = ApplySettings(v, op[p].lang, op[p].ajv)]
         /\ ret' = [ret EXCEPT ![p] = "up"]
         /\ pc' = [pc EXCEPT ![p] = "gp_get"]
         /\ UNCHANGED ctx
    [] ret[p] = "up" ->
         \* updateUserPreferences merges and issues the UPDATE
         /\ pend' = [pend EXCEPT ![p] = MergePreferences(v, pend[p])]
         /\ pc' = [pc EXCEPT ![p] = "up_db"]
         /\ UNCHANGED <<ctx, ret>>

\* History of the call: getUserPreferences returns v, which it took from src
\* ("cache", "row", "default"), or the catch block's defaults after a failing
\* call ("fault") or a statement the database rejected ("rejected").
GupObs(o, v, src) ==
  [o EXCEPT !.gupCalls = @ + 1, !.gupVal = v, !.gupSrc = src,
            !.gupErr = @ \/ src \in {"fault", "rejected"}]

\* Variant: the cache read is outside the try block, its error reaches the
\* caller.
GupCacheGet_rethrow(p, ok) ==
  /\ pc[p] = "gp_get"
  /\ LET cached == CacheGet(prefCache, op[p].userId) IN
     IF ~ok THEN
       /\ Throw(p)
       /\ obs' = [obs EXCEPT ![p].cacheErr = TRUE, ![p].gupErr = TRUE]
       /\ UNCHANGED <<ctx, ret, pend>>
     ELSE IF IsSome(cached) THEN
       /\ GupReturn(p, Val(cached))
       /\ obs' = [obs EXCEPT ![p] = GupObs(@, Val(cached), "cache")]
       /\ UNCHANGED reply
     ELSE
       /\ pc' = [pc EXCEPT ![p] = "gp_sel"]
       /\ UNCHANGED <<ctx, ret, pend, obs, reply>>
  /\ UNCHANGED <<op, prefs, got, stores, clock, nops, lastWrite>>

\* const cached = await this.redis.get(key)
GupCacheGet(p, ok) ==
  /\ pc[p] = "gp_get"
  /\ LET cached == CacheGet(prefCache, op[p].userId) IN
     IF ~ok THEN
       /\ GupReturn(p, DefaultPreferences)
       /\ obs' = [obs EXCEPT ![p] = GupObs([@ EXCEPT !.cacheErr = TRUE],
                                           DefaultPreferences, "fault")]
     ELSE IF IsSome(cached) THEN
       /\ GupReturn(p, Val(cached))
       /\ obs' = [obs EXCEPT ![p] = GupObs(@, Val(cached), "cache")]
     ELSE
       /\ pc' = [pc EXCEPT ![p] = "gp_sel"]
       /\ UNCHANGED <<ctx, ret, pend, obs>>
  /\ UNCHANGED <<op, prefs, reply, got, stores, clock, nops, lastWrite>>

\* Variant: a failing SELECT is rethrown to the caller instead of being
\* answered with the defaults.
GupSelect_rethrow(p, ok) ==
  /\ pc[p] = "gp_sel"
  /\ LET row == usersDb[op[p].userId] IN
     IF ~ok THEN
       /\ Throw(p)
       /\ obs' = [obs EXCEPT ![p].dbErr = TRUE]
       /\ UNCHANGED <<prefs, ctx, ret, pend>>
     ELSE IF IsSome(row) THEN
       /\ prefs' = [prefs EXCEPT ![p] = Val(row)]
       /\ pc' = [pc EXCEPT ![p] = "gp_set"]
       /\ UNCHANGED <<ctx, ret, pend, obs, reply>>
     ELSE
       /\ prefs' = [prefs EXCEPT ![p] = DefaultPreferences]
       /\ pc' = [pc EXCEPT ![p] = "gp_ins"]
       /\ UNCHANGED <<ctx, ret, pend, obs, reply>>
  /\ UNCHANGED <<op, got, stores, clock, nops, lastWrite>>

\* SELECT preferences FROM users WHERE id = $1
GupSelect(p, ok) ==
  /\ pc[p] = "gp_sel"
  /\ LET row == usersDb[op[p].userId] IN
     IF ~ok THEN
       /\ GupReturn(p, DefaultPreferences)
       /\ obs' = [obs EXCEPT ![p] = GupObs([@ EXCEPT !.dbErr = TRUE],
                                           DefaultPreferences, "fault")]
       /\ UNCHANGED prefs
     ELSE IF IsSome(row) THEN
       /\ prefs' = [prefs EXCEPT ![p] = Val(row)]
       /\ pc' = [pc EXCEPT ![p] = "gp_set"]
       /\ UNCHANGED <<ctx, ret, pend, obs>>
     ELSE
       /\ prefs' = [prefs EXCEPT ![p] = DefaultPreferences]
       /\ pc' = [pc EXCEPT ![p] = "gp_ins"]
       /\ UNCHANGED <<ctx, ret, pend, obs>>
  /\ UNCHANGED <<op, reply, got, stores, clock, nops, lastWrite>>

\* INSERT INTO users (id, preferences) VALUES ($1, $2) ON CONFLICT (id) DO NOTHING
GupInsert(p, ok) ==
  /\ pc[p] = "gp_ins"
  /\ IF ~ok \/ InsertViolatesNotNull THEN
       /\ GupReturn(p, DefaultPreferences)
       /\ obs' = [obs EXCEPT ![p] = GupObs([@ EXCEPT !.dbErr = TRUE], DefaultPreferences,
                                           IF ok THEN "rejected" ELSE "fault")]
       /\ UNCHANGED usersDb
     ELSE
       /\ usersDb' = IF IsSome(usersDb[op[p].userId]) THEN usersDb
                     ELSE [usersDb EXCEPT ![op[p].userId] = Some(prefs[p])]
       /\ pc' = [pc EXCEPT ![p] = "gp_set"]
       /\ UNCHANGED <<ctx, ret, pend, obs>>
  /\ UNCHANGED <<op, prefs, reply, got, ctxCache, prefCache, ctxDb, clock, nops, lastWrite>>

\* await this.redis.setEx(key, PREFERENCES_TTL, JSON.stringify(preferences))
GupCacheSet(p, ok) ==
  /\ pc[p] = "gp_set"
  /\ IF ~ok THEN
       /\ GupReturn(p, DefaultPreferences)
       /\ obs' = [obs EXCEPT ![p] = GupObs([@ EXCEPT !.cacheErr = TRUE],
                                           DefaultPreferences, "fault")]
       /\ UNCHANGED prefCache
     ELSE
       /\ prefCache' = CacheSetEx(prefCache, op[p].userId, PREFERENCES_TTL, prefs[p])
       /\ GupReturn(p, prefs[p])
       /\ obs' = [obs EXCEPT ![p] = GupObs(@, prefs[p],
                        IF IsSome(usersDb[op[p].userId]) THEN "row" ELSE "default")]
  /\ UNCHANGED <<op, prefs, reply, got, ctxCache, ctxDb, usersDb, clock, nops, lastWrite>>


\* ------------------------------------------- GriptapeService.processMessage
\* Variant: a failed POST is sent once more before the error is thrown.
ProcessMessage_retry(p, ok) ==
  /\ pc[p] = "pm_post"
  /\ IF ~ok /\ obs[p].gwCalls < 2 THEN
       /\ obs' = [obs EXCEPT ![p].gwCalls = @ + 1]
       /\ UNCHANGED <<ctx, pc, reply>>
     ELSE IF ~ok THEN
       /\ Throw(p)
       /\ obs' = [obs EXCEPT ![p].gwFailed = TRUE]
       /\ UNCHANGED ctx
     ELSE
       /\ ctx' = [ctx EXCEPT ![p].history =
                     Append(@, Turn("assistant", AIContent(op[p].content), now, op[p].via)),
                             ![p].timestamp = now]
       /\ pc' = [pc EXCEPT ![p] = "uc_set"]
       /\ UNCHANGED <<reply, obs>>
  /\ UNCHANGED <<op, ret, prefs, pend, got, stores, clock, nops, lastWrite>>

\* The POST /process completes.  On success the handler pushes the assistant
\* turn and calls updateContext, which stamps the context and writes the cache.
ProcessMessage(p, ok) ==
  /\ pc[p] = "pm_post"
  /\ IF ~ok THEN
       /\ Throw(p)
       /\ obs' = [obs EXCEPT ![p].gwFailed = TRUE]
       /\ UNCHANGED ctx
     ELSE
       /\ ctx' = [ctx EXCEPT ![p].history =
                     Append(@, Turn("assistant", AIContent(op[p].content), now, op[p].via)),
                             ![p].timestamp = now]
       /\ pc' = [pc EXCEPT ![p] = "uc_set"]
       /\ UNCHANGED <<reply, obs>>
  /\ UNCHANGED <<op, ret, prefs, pend, got, stores, clock, nops, lastWrite>>

\* ---------------------------------------------- ContextService.updateContext
\* Variant: the new history is appended to the history already cached.
UpdatedCache_merge(cache, k, c) ==
  LET old == CacheGet(cache, k)
      prev == IF IsSome(old) THEN Val(old).history ELSE <<>>
  IN  CacheSetEx(cache, k, CONTEXT_TTL,
                 [Serialize(c) EXCEPT !.history = prev \o Serialize(c).history])

\* What updateContext leaves in the cache for the key: the context as a whole.
UpdatedCache(cache, k, c) == CacheSetEx(cache, k, CONTEXT_TTL, Serialize(c))

\* Variant: a failing cache write is only logged and the upsert is issued.
UpdateCacheSet_continue(p, ok) ==
  /\ pc[p] = "uc_set"
  /\ LET k == KeyOf(p) IN
     IF ~ok THEN
       /\ obs' = [obs EXCEPT ![p].cacheErr = TRUE, ![p].upserts = @ + 1]
       /\ UNCHANGED <<ctxCache, lastWrite>>
     ELSE
       /\ ctxCache' = UpdatedCache(ctxCache, k, ctx[p])
       /\ lastWrite' = [lastWrite EXCEPT ![k] =
                          [op |-> "update", hist |-> ctx[p].history, at |-> now, cleared |-> FALSE]]
       /\ obs' = [obs EXCEPT ![p].upserts = @ + 1]
  /\ pc' = [pc EXCEPT ![p] = "uc_db"]
  /\ UNCHANGED <<op, ret, ctx, prefs, pend, reply, got, prefCache, ctxDb, usersDb, clock, nops>>

\* await this.redis.setEx(key, CONTEXT_TTL, JSON.stringify(context));
\* then storeContextInDatabase issues its upsert.
UpdateCacheSet(p, ok) ==
  /\ pc[p] = "uc_set"
  /\ LET k == KeyOf(p) IN
     IF ~ok THEN
       /\ Throw(p)
       /\ obs' = [obs EXCEPT ![p].cacheErr = TRUE, ![p].updFailed = TRUE]
       /\ UNCHANGED <<ctxCache, lastWrite>>
     ELSE
       /\ ctxCache' = UpdatedCache(ctxCache, k, ctx[p])
       /\ lastWrite' = [lastWrite EXCEPT ![k] =
                          [op |-> "update", hist |-> ctx[p].history, at |-> now, cleared |-> FALSE]]
       /\ pc' = [pc EXCEPT ![p] = "uc_db"]
       /\ obs' = [obs EXCEPT ![p].upserts = @ + 1]
       /\ UNCHANGED reply
  /\ UNCHANGED <<op, ret, ctx, prefs, pend, got, prefCache, ctxDb, usersDb, clock, nops>>

\* The reply a successful conversational turn sends: response.content.
ContentReply(p) == [kind |-> "content", content |-> AIContent(op[p].content)]

\* Variant: the error of the upsert is rethrown.
StoreContextInDatabase_rethrow(p, ok) ==
  /\ pc[p] = "uc_db"
  /\ LET k == KeyOf(p) IN
     IF ~ok \/ UpsertViolatesFK(op[p].userId) THEN
       /\ obs' = [obs EXCEPT ![p].dbErr = TRUE, ![p].upsertErr = TRUE]
       /\ Throw(p)
       /\ UNCHANGED <<ctxDb, lastWrite>>
     ELSE
       /\ ctxDb' = [ctxDb EXCEPT ![k] = Some(ContextRow(ctx[p]))]
       /\ lastWrite' = [lastWrite EXCEPT ![k].cleared = FALSE]
       /\ pc' = [pc EXCEPT ![p] = "done"]
       /\ reply' = [reply EXCEPT ![p] = ContentReply(p)]
       /\ UNCHANGED obs
  /\ UNCHANGED <<op, ret, ctx, prefs, pend, got, ctxCache, prefCache, usersDb, clock, nops>>

\* storeContextInDatabase: the upsert completes; its error is logged and not
\* rethrown.  updateContext returns and the handler sends the reply.
StoreContextInDatabase(p, ok) ==
  /\ pc[p] = "uc_db"
  /\ LET k == KeyOf(p) IN
     IF ~ok \/ UpsertViolatesFK(op[p].userId) THEN
       /\ obs' = [obs EXCEPT ![p].dbErr = TRUE, ![p].upsertErr = TRUE]
       /\ UNCHANGED <<ctxDb, lastWrite>>
     ELSE
       /\ ctxDb' = [ctxDb EXCEPT ![k] = Some(ContextRow(ctx[p]))]
       /\ lastWrite' = [lastWrite EXCEPT ![k].cleared = FALSE]
       /\ UNCHANGED obs
  /\ pc' = [pc EXCEPT ![p] = "done"]
  /\ reply' = [reply EXCEPT ![p] = ContentReply(p)]
  /\ UNCHANGED <<op, ret, ctx, prefs, pend, got, ctxCache, prefCache, usersDb, clock, nops>>

\* ----------------------------------------------- ContextService.clearContext
\* History of the context a cache entry holds (empty when there is none).
CachedHistory(k) ==
  IF IsSome(CacheGet(ctxCache, k)) THEN ParseContext(Val(CacheGet(ctxCache, k))).history
  ELSE <<>>

\* Variant: deleting something that does not exist is reported as an error.
ClearThrows_strict(ok, existed) == ~ok \/ ~existed

\* clearContext throws exactly when a store call throws: DEL of a missing key
\* and DELETE of no row are not errors.
ClearThrows(ok, existed) == ~ok

\* await this.redis.del(key); then the DELETE is issued.
ClearCacheDel(p, ok) ==
  /\ pc[p] = "cc_del"
  /\ LET k == KeyOf(p) IN
     IF ClearThrows(ok, IsSome(ctxCache[k])) THEN
       /\ Throw(p)
       /\ obs' = [obs EXCEPT ![p].cacheErr = ~ok,
                             ![p].secondClear = lastWrite[k].cleared]
       /\ UNCHANGED <<ctxCache, lastWrite>>
     ELSE
       /\ ctxCache' = CacheDel(ctxCache, k)
       /\ lastWrite' = [lastWrite EXCEPT ![k].op = "del", ![k].hist = CachedHistory(k),
                                          ![k].at = now]
       /\ pc' = [pc EXCEPT ![p] = "cc_db"]
       /\ obs' = [obs EXCEPT ![p].secondClear = lastWrite[k].cleared]
       /\ UNCHANGED reply
  /\ UNCHANGED <<op, ret, ctx, prefs, pend, got, prefCache, ctxDb, usersDb, clock, nops>>

\* DELETE FROM conversation_contexts WHERE user_id = $1 AND channel_id = $2;
\* an error is logged and rethrown to handleClearCommand.
ClearDbDelete(p, ok) ==
  /\ pc[p] = "cc_db"
  /\ LET k == KeyOf(p) IN
     IF ClearThrows(ok, IsSome(ctxDb[k])) THEN
       /\ Throw(p)
       /\ obs' = [obs EXCEPT ![p].dbErr = ~ok]
       /\ UNCHANGED <<ctxDb, lastWrite>>
     ELSE
       /\ ctxDb' = [ctxDb EXCEPT ![k] = None]
       /\ lastWrite' = [lastWrite EXCEPT ![k].cleared = (lastWrite[k].op = "del")]
       /\ pc' = [pc EXCEPT ![p] = "done"]
       /\ reply' = [reply EXCEPT ![p] = [kind |-> "cleared", content |-> 0]]
       /\ UNCHANGED obs
  /\ UNCHANGED <<op, ret, ctx, prefs, pend, got, ctxCache, prefCache, usersDb, clock, nops>>

\* -------------------------------------- ContextService.updateUserPreferences
\* UPDATE users SET preferences = $1 WHERE id = $2: changes the row if there
\* is one; an error is logged and rethrown to handleSettingsCommand.
UpdatePrefsDb(p, ok) ==
  /\ pc[p] = "up_db"
  /\ LET u == op[p].userId IN
     IF ~ok THEN
       /\ Throw(p)
       /\ obs' = [obs EXCEPT ![p].dbErr = TRUE]
       /\ UNCHANGED usersDb
     ELSE
       /\ usersDb' = IF IsSome(usersDb[u]) THEN [usersDb EXCEPT ![u] = Some(pend[p])]
                     ELSE usersDb
       /\ pc' = [pc EXCEPT ![p] = "up_set"]
       /\ UNCHANGED <<reply, obs>>
  /\ UNCHANGED <<op, ret, ctx, prefs, pend, got, ctxCache, prefCache, ctxDb, clock, nops, lastWrite>>

\* Variant: the new preferences are also written into the user's cached
\* contexts.
UpdatePrefsCache_propagate(p, ok) ==
  /\ pc[p] = "up_set"
  /\ IF ~ok THEN
       /\ Throw(p)
       /\ obs' = [obs EXCEPT ![p].cacheErr = TRUE]
       /\ UNCHANGED <<prefCache, ctxCache>>
     ELSE
       /\ prefCache' = CacheSetEx(prefCache, op[p].userId, PREFERENCES_TTL, pend[p])
       /\ ctxCache' = [k \in Keys |->
                         IF k[1] = op[p].userId /\ IsSome(ctxCache[k])
                         THEN Some([Val(ctxCache[k]) EXCEPT !.val.preferences = pend[p]])
                         ELSE ctxCache[k]]
       /\ pc' = [pc EXCEPT ![p] = "done"]
       /\ reply' = [reply EXCEPT ![p] = [kind |-> "settings", content |-> 0]]
       /\ UNCHANGED obs
  /\ UNCHANGED <<op, ret, ctx, prefs, pend, got, ctxDb, usersDb, clock, nops, lastWrite>>

\* await this.redis.setEx(key, PREFERENCES_TTL, ...); the handler replies.
UpdatePrefsCache(p, ok) ==
  /\ pc[p] = "up_set"
  /\ IF ~ok THEN
       /\ Throw(p)
       /\ obs' = [obs EXCEPT ![p].cacheErr = TRUE]
       /\ UNCHANGED prefCache
     ELSE
       /\ prefCache' = CacheSetEx(prefCache, op[p].userId, PREFERENCES_TTL, pend[p])
       /\ pc' = [pc EXCEPT ![p] = "done"]
       /\ reply' = [reply EXCEPT ![p] = [kind |-> "settings", content |-> 0]]
       /\ UNCHANGED obs
  /\ UNCHANGED <<op, ret, ctx, prefs, pend, got, ctxCache, ctxDb, usersDb, clock, nops, lastWrite>>

\* ------------------------------------------------------------ specification
\* A call of task p completes, successfully or not.
Step(p, ok) ==
  \/ GetContextRead(p, ok)
  \/ GetContextStore(p, ok)
  \/ GupCacheGet(p, ok)
  \/ GupSelect(p, ok)
  \/ GupInsert(p, ok)
  \/ GupCacheSet(p, ok)
  \/ ProcessMessage(p, ok)
  \/ UpdateCacheSet(p, ok)
  \/ StoreContextInDatabase(p, ok)
  \/ ClearCacheDel(p, ok)
  \/ ClearDbDelete(p, ok)
  \/ UpdatePrefsDb(p, ok)
  \/ UpdatePrefsCache(p, ok)

\* An event arrives for task p.
Start(p) ==
  \/ \E u \in Users, c \in Channels : StartChat(p, u, c)
  \/ \E u \in Users, c \in Channels : StartClear(p, u, c)
  \/ \E u \in Users, s \in SettingsInputs : StartSettings(p, u, s[1], s[2])

\* Spec: the two router tasks interleave at every suspension point; at most
\* MaxFaults calls fail.
Next ==
  \/ \E p \in Procs : nops < MaxOps /\ Start(p) /\ UNCHANGED <<faults, router, reminders, annex>>
  \/ \E p \in Procs : Step(p, TRUE) /\ UNCHANGED <<faults, router, reminders, annex>>
  \/ \E p \in Procs : /\ faults < MaxFaults /\ Step(p, FALSE)
                      /\ faults' = faults + 1 /\ UNCHANGED <<router, reminders, annex>>
  \/ \E p \in Procs : Finish(p) /\ UNCHANGED <<faults, router, reminders, annex>>

Spec == Init /\ [][Next]_vars

\* SeqSpec: invocations follow one another (an event is taken only when no
\* invocation is in flight); any call may fail, and time passes between
\* invocations (an invocation is short compared with TickStep).
SeqNext ==
  \/ \E p \in Procs : /\ nops < SeqMaxOps
                      /\ \A q \in Procs : pc[q] = "idle"
                      /\ Start(p)
                      /\ UNCHANGED <<faults, router, reminders, annex>>
  \/ \E p \in Procs, ok \in BOOLEAN : Step(p, ok) /\ UNCHANGED <<faults, router, reminders, annex>>
  \/ \E p \in Procs : Finish(p) /\ UNCHANGED <<faults, router, reminders, annex>>
  \/ (\A q \in Procs : pc[q] = "idle") /\ Tick /\ UNCHANGED <<faults, router, reminders, annex>>

SeqSpec == Init /\ [][SeqNext]_vars

\* ------------------------------------------------- a longer conversation
\* The history after j free-form turns of a conversation: turn i carried the
\* message 10 * i.
PriorHistory(j) ==
  [i \in 1..(2 * j) |->
     IF i % 2 = 1 THEN Turn("user", 10 * ((i + 1) \div 2), 0, "message")
     ELSE Turn("assistant", AIContent(10 * (i \div 2)), 0, "message")]

PriorContext(j) ==
  [FreshContext("u1", "c1", DefaultPreferences, 0) EXCEPT !.history = PriorHistory(j)]

\* u1 has had j turns in c1: updateContext has left the context in the cache
\* and in conversation_contexts, getUserPreferences the preferences in the
\* cache.
LongInit ==
  /\ Idle
  /\ \E j \in 0..MaxPairs :
       LET k0 == <<"u1", "c1">> IN
       IF j = 0 THEN
         /\ ctxCache = [k \in Keys |-> None]
         /\ prefCache = [u \in Users |-> None]
         /\ ctxDb = [k \in Keys |-> None]
         /\ lastWrite = [k \in Keys |-> NoWrite]
       ELSE
         /\ ctxCache = CacheSetEx([k \in Keys |-> None], k0, CONTEXT_TTL,
                                  Serialize(PriorContext(j)))
         /\ prefCache = CacheSetEx([u \in Users |-> None], "u1", PREFERENCES_TTL,
                                   DefaultPreferences)
         /\ ctxDb = [k \in Keys |-> IF k = k0 THEN Some(ContextRow(PriorContext(j)))
                                    ELSE None]
         /\ lastWrite = [k \in Keys |->
                           IF k = k0 THEN [op |-> "update", hist |-> PriorHistory(j),
                                           at |-> 0, cleared |-> FALSE]
                           ELSE NoWrite]

\* The calls of a conversational turn.
ChatStep(p, ok) ==
  \/ GetContextRead(p, ok)
  \/ GetContextStore(p, ok)
  \/ GupCacheGet(p, ok)
  \/ GupSelect(p, ok)
  \/ GupInsert(p, ok)
  \/ GupCacheSet(p, ok)
  \/ ProcessMessage(p, ok)
  \/ UpdateCacheSet(p, ok)
  \/ StoreContextInDatabase(p, ok)

\* LongSpec: conversational turns, one after the other, on top of a
\* conversation of up to MaxPairs earlier turns.
LongNext ==
  \/ \E p \in Procs, u \in Users, c \in Channels :
        /\ nops < LongMaxOps
        /\ \A q \in Procs : pc[q] = "idle"
        /\ StartChat(p, u, c)
        /\ UNCHANGED <<faults, router, reminders, annex>>
  \/ \E p \in Procs, ok \in BOOLEAN : ChatStep(p, ok) /\ UNCHANGED <<faults, router, reminders, annex>>
  \/ \E p \in Procs : Finish(p) /\ UNCHANGED <<faults, router, reminders, annex>>

LongSpec == LongInit /\ [][LongNext]_vars

\* RaceSpec: the two router tasks interleave at every suspension point, as
\* in Spec, in a channel where u1 has had one turn.
RaceInit ==
  /\ LongInit
  /\ lastWrite[<<"u1", "c1">>].hist = PriorHistory(1)

RaceSpec == RaceInit /\ [][Next]_vars

\* ------------------------------------------- the weather and remind commands
\* A handler answers at once and returns.
Answer(p, o, r) ==
  /\ pc[p] = "idle"
  /\ nops' = nops + 1
  /\ op' = [op EXCEPT ![p] = o]
  /\ pc' = [pc EXCEPT ![p] = "done"]
  /\ reply' = [reply EXCEPT ![p] = r]
  /\ obs' = [obs EXCEPT ![p] =
               [NoObs EXCEPT !.before = CacheGet(ctxCache, <<o.userId, o.channelId>>)]]
  /\ UNCHANGED <<ret, ctx, prefs, pend, got, stores, clock, lastWrite>>

\* Variant: the handler answers with the generic error text.
UsageReply_generic == [kind |-> "error", content |-> 0]

\* 'Usage: `!<command> ...`' with an example
UsageReply == [kind |-> "usage", content |-> 0]

\* `!weather [location]`: handleWeatherCommand answers with the usage text
\* when there is no location, otherwise it calls getContext.
StartWeather(p, u, c, args) ==
  LET o == [NoOp EXCEPT !.kind = "weather", !.userId = u, !.channelId = c,
                        !.content = nops + 1, !.via = p, !.args = args]
  IN  /\ p = "message"
      /\ IF args = <<>> THEN Answer(p, o, UsageReply) ELSE Begin(p, o, "gc_get", "gc")

\* `!remind [args]`: handleRemindCommand, likewise.
StartRemind(p, u, c, args) ==
  LET o == [NoOp EXCEPT !.kind = "remind", !.userId = u, !.channelId = c,
                        !.content = nops + 1, !.via = p, !.args = args]
  IN  /\ p = "message"
      /\ IF args = <<>> THEN Answer(p, o, UsageReply) ELSE Begin(p, o, "gc_get", "gc")

\* `/remind message time` (both options required): handleReminderCommand
\* calls interaction.deferReply.
StartSlashRemind(p, u, c, message, timeString) ==
  /\ p = "slash"
  /\ Begin(p, [NoOp EXCEPT !.kind = "remind", !.userId = u, !.channelId = c,
                           !.content = nops + 1, !.via = p,
                           !.args = <<message, timeString>>], "rm_defer", "gc")

\* Variant: the reply is not deferred, getContext is called at once.
RemindDefer_skip(p, ok) ==
  /\ pc[p] = "rm_defer"
  /\ pc' = [pc EXCEPT ![p] = "gc_get"]
  /\ UNCHANGED <<op, ret, ctx, prefs, pend, reply, obs, got, stores, clock, nops, lastWrite>>

\* await interaction.deferReply({ ephemeral: true }); then getContext is
\* called.  The call is outside the handler's try: its error reaches the
\* catch of handleInteraction, which sends the error reply.
RemindDefer(p, ok) ==
  /\ pc[p] = "rm_defer"
  /\ IF ~ok THEN
       /\ Throw(p)
       /\ UNCHANGED obs
     ELSE
       /\ pc' = [pc EXCEPT ![p] = "gc_get"]
       /\ obs' = [obs EXCEPT ![p].deferred = TRUE]
       /\ UNCHANGED reply
  /\ UNCHANGED <<op, ret, ctx, prefs, pend, got, stores, clock, nops, lastWrite>>

\* `✅ Reminder set: "<message>" - <content>` (slash) and
\* `✅ Reminder set: <content>` (prefix).
ReminderReply(quote, content) ==
  [kind |-> "reminder", content |-> content, quote |-> quote]

\* What a command handler replies with when processMessage has answered.
CommandReply(p) ==
  CASE op[p].kind = "remind" /\ op[p].via = "slash" ->
         ReminderReply(Some(op[p].args[1]), AIContent(op[p].content))
    [] op[p].kind = "remind" /\ op[p].via = "message" ->
         ReminderReply(None, AIContent(op[p].content))
    [] OTHER -> ContentReply(p)

\* The POST /process of a command handler completes: the handler replies
\* and returns; it neither pushes to the history nor calls updateContext or
\* createReminder.
CommandPost(p, ok) ==
  /\ pc[p] = "cmd_post"
  /\ IF ~ok THEN
       /\ Throw(p)
       /\ obs' = [obs EXCEPT ![p].gwFailed = TRUE]
     ELSE
       /\ pc' = [pc EXCEPT ![p] = "done"]
       /\ reply' = [reply EXCEPT ![p] = CommandReply(p)]
       /\ UNCHANGED obs
  /\ UNCHANGED <<op, ret, ctx, prefs, pend, got, stores, clock, nops, lastWrite>>

\* The inputs of the commands: a location, the text after `remind`, and the
\* two options of /remind.
Locations == {<<>>, <<7>>}
RemindArgs == {<<>>, <<8>>}
RemindOptions == {<<8, 9>>}

\* The calls of a command handler.
CommandStep(p, ok) ==
  \/ RemindDefer(p, ok)
  \/ GetContextRead(p, ok)
  \/ GetContextStore(p, ok)
  \/ GupCacheGet(p, ok)
  \/ GupSelect(p, ok)
  \/ GupInsert(p, ok)
  \/ GupCacheSet(p, ok)
  \/ CommandPost(p, ok)

StartCommand(p) ==
  \/ \E u \in Users, c \in Channels, a \in Locations : StartWeather(p, u, c, a)
  \/ \E u \in Users, c \in Channels, a \in RemindArgs : StartRemind(p, u, c, a)
  \/ \E u \in Users, c \in Channels, a \in RemindOptions :
        StartSlashRemind(p, u, c, a[1], a[2])

\* CmdSpec: `!weather`, `!remind` and `/remind`, the two routers
\* interleaving, on top of a conversation of up to MaxPairs earlier turns.
CmdNext ==
  \/ \E p \in Procs : nops < CmdMaxOps /\ StartCommand(p)
                       /\ UNCHANGED <<faults, router, reminders, annex>>
  \/ \E p \in Procs, ok \in BOOLEAN :
        CommandStep(p, ok) /\ UNCHANGED <<faults, router, reminders, annex>>
  \/ \E p \in Procs : Finish(p) /\ UNCHANGED <<faults, router, reminders, annex>>

CmdSpec == LongInit /\ [][CmdNext]_vars

\* -------------------------------------------- MessageHandler.handleMessage
\* `!search [args]`: handleSearchCommand.
StartSearch(p, u, c, args) ==
  LET o == [NoOp EXCEPT !.kind = "search", !.userId = u, !.channelId = c,
                        !.content = nops + 1, !.via = p, !.args = args]
  IN  /\ p = "message"
      /\ IF args = <<>> THEN Answer(p, o, UsageReply) ELSE Begin(p, o, "gc_get", "gc")

\* `!translate [args]`: handleTranslateCommand.
StartTranslate(p, u, c, args) ==
  LET o == [NoOp EXCEPT !.kind = "translate", !.userId = u, !.channelId = c,
                        !.content = nops + 1, !.via = p, !.args = args]
  IN  /\ p = "message"
      /\ IF args = <<>> THEN Answer(p, o, UsageReply) ELSE Begin(p, o, "gc_get", "gc")

\* `!time [args]`: handleTimeCommand calls getContext whatever the args.
StartTime(p, u, c, args) ==
  /\ p = "message"
  /\ Begin(p, [NoOp EXCEPT !.kind = "time", !.userId = u, !.channelId = c,
                           !.content = nops + 1, !.via = p, !.args = args],
           "gc_get", "gc")

\* `!status`: handleStatusCommand calls griptapeService.getStatus.
StartStatus(p, u, c) ==
  /\ p = "message"
  /\ Begin(p, [NoOp EXCEPT !.kind = "status", !.userId = u, !.channelId = c,
                           !.via = p], "st_health", "gc")

\* await this.griptapeService.getStatus(): a failing GET /health is caught
\* inside getStatus and reported as `unhealthy`; getContext is called next.
StatusHealth(p, ok) ==
  /\ pc[p] = "st_health"
  /\ pc' = [pc EXCEPT ![p] = "gc_get"]
  /\ UNCHANGED <<op, ret, ctx, prefs, pend, reply, obs, got, stores, clock, nops, lastWrite>>

\* await message.reply(statusText): the text carries context.history.length.
StatusReply(p, ok) ==
  /\ pc[p] = "st_reply"
  /\ pc' = [pc EXCEPT ![p] = "done"]
  /\ reply' = [reply EXCEPT ![p] = [kind |-> "status", content |-> Len(got[p].history)]]
  /\ UNCHANGED <<op, ret, ctx, prefs, pend, obs, got, stores, clock, nops, lastWrite>>

\* The replies of the handlers that call no service: help, ping, info.
LocalReply(command) == [kind |-> command, content |-> 0]

\* 'Unknown command: ...'
UnknownCommandReply == [kind |-> "unknown", content |-> 0]

\* handleCommandMessage: the first word, lower-cased, selects the handler;
\* the other words, joined, are its args.
HandleCommandMessage(p, u, c, content) ==
  LET parts == SplitWords(content)
      command == ToLowerCase(parts[1])
      args == JoinedArgs(parts)
      o == [NoOp EXCEPT !.kind = command, !.userId = u, !.channelId = c, !.via = p,
                        !.args = args]
  IN  CASE command \in {"help", "ping", "info"} -> Answer(p, o, LocalReply(command))
        [] command = "status" -> StartStatus(p, u, c)
        [] command \in {"clear", "reset"} -> StartClear(p, u, c)
        [] command = "remind" -> StartRemind(p, u, c, args)
        [] command = "time" -> StartTime(p, u, c, args)
        [] command = "weather" -> StartWeather(p, u, c, args)
        [] command = "search" -> StartSearch(p, u, c, args)
        [] command = "translate" -> StartTranslate(p, u, c, args)
        [] OTHER -> Answer(p, o, UnknownCommandReply)

\* Variant: a message that is not handled is answered with the error text.
Ignore_answer(p, u, c) ==
  Answer(p, [NoOp EXCEPT !.kind = "ignored", !.userId = u, !.channelId = c, !.via = p],
         ErrorReply)

\* handleMessage returns without handling the message.
Ignore(p, u, c) ==
  Answer(p, [NoOp EXCEPT !.kind = "ignored", !.userId = u, !.channelId = c, !.via = p],
         NoReply)

\* The message m of user u arrives in channel c.
HandleMessage(u, c, m) ==
  LET p == "message"
      content == StrippedContent(m)
  IN
  /\ msg' = m
  /\ IF m.authorBot \/ IsEmptyMessage(m) THEN Ignore(p, u, c)
     ELSE IF m.place = "guild_noperm" THEN Ignore(p, u, c)
     ELSE IF ~IsMentioned(m) /\ ~IsPrefixed(m) /\ ~IsDM(m) THEN Ignore(p, u, c)
     ELSE IF content = <<>> THEN Ignore(p, u, c)
     ELSE IF IsCommand(content) THEN HandleCommandMessage(p, u, c, content)
     ELSE StartChat(p, u, c)

\* The calls of the handlers of the message router.
MsgStep(p, ok) ==
  \/ StatusHealth(p, ok)
  \/ StatusReply(p, ok)
  \/ GetContextRead(p, ok)
  \/ GetContextStore(p, ok)
  \/ GupCacheGet(p, ok)
  \/ GupSelect(p, ok)
  \/ GupInsert(p, ok)
  \/ GupCacheSet(p, ok)
  \/ ProcessMessage(p, ok)
  \/ UpdateCacheSet(p, ok)
  \/ StoreContextInDatabase(p, ok)
  \/ CommandPost(p, ok)
  \/ ClearCacheDel(p, ok)
  \/ ClearDbDelete(p, ok)

\* MsgSpec: the message router alone, the messages handled one after the
\* other; any call may fail.
MsgNext ==
  \/ \E u \in Users, c \in Channels, m \in Messages :
        /\ nops < MsgMaxOps
        /\ HandleMessage(u, c, m)
        /\ UNCHANGED <<faults, router, reminders, voice, pipecat, inflight>>
  \/ \E ok \in BOOLEAN : MsgStep("message", ok) /\ UNCHANGED <<faults, router, reminders, annex>>
  \/ Finish("message") /\ UNCHANGED <<faults, router, reminders, annex>>

MsgSpec == Init /\ [][MsgNext]_vars

\* ------------------------------------- SlashCommandHandler.handleInteraction
\* Variant: the window is closed at its end, `now <= expirationTime`.
OnCooldown_inclusive(timestamps, key, cooldownAmount) ==
  IsSome(timestamps[key]) /\ dateNow <= Val(timestamps[key]) + cooldownAmount

\* timestamps.has(cooldownKey) && now < timestamps.get(cooldownKey) + cooldownAmount
OnCooldown(timestamps, key, cooldownAmount) ==
  IsSome(timestamps[key]) /\ dateNow < Val(timestamps[key]) + cooldownAmount

\* Variant: a rejected interaction is dropped without a response.
WaitReply_silent(timeLeft) == NoReply

\* The wait-time reply: (expirationTime - now) milliseconds are left.
WaitReply(timeLeft) == [kind |-> "wait", content |-> timeLeft]

\* 'Unknown command. Use `/help` to see available commands.'
UnknownReply == [kind |-> "unknown", content |-> 0]

\* The command names interactions carry: the registered ones and one the
\* router has no command for.
CommandNames == Commands \cup {"bogus"}

\* Variant: a rejected invocation records its own time as the timestamp.
HandleInteraction_restamp(u, c, cmd, lang, ajv) ==
  LET p == "slash"
      key == CooldownKey(u, cmd)
      timestamps == cooldowns[cmd]
      cooldownAmount == Cooldown(cmd) * 1000
  IN
  /\ pc[p] = "idle"
  /\ nops < CoolMaxOps
  /\ IF cmd \notin Commands THEN
       /\ Answer(p, [NoOp EXCEPT !.kind = cmd, !.userId = u, !.channelId = c,
                                 !.via = p], UnknownReply)
       /\ UNCHANGED <<cooldowns, dispatched>>
     ELSE IF OnCooldown(timestamps, key, cooldownAmount) THEN
       /\ pc' = [pc EXCEPT ![p] = "done"]
       /\ op' = [op EXCEPT ![p] = [NoOp EXCEPT !.kind = cmd, !.userId = u,
                                               !.channelId = c, !.via = p]]
       /\ reply' = [reply EXCEPT ![p] =
                       WaitReply(Val(timestamps[key]) + cooldownAmount - dateNow)]
       /\ nops' = nops + 1
       /\ cooldowns' = [cooldowns EXCEPT ![cmd][key] = Some(dateNow)]
       /\ UNCHANGED <<ret, ctx, prefs, pend, obs, got, stores, clock, lastWrite,
                      dispatched>>
     ELSE
       /\ cooldowns' = [cooldowns EXCEPT ![cmd][key] = Some(dateNow)]
       /\ dispatched' = [dispatched EXCEPT ![<<u, cmd>>] = Some(dateNow)]
       /\ IF cmd = "chat" THEN StartChat(p, u, c) ELSE StartSettings(p, u, lang, ajv)
  /\ UNCHANGED <<faults, dateNow, reminders, annex>>

\* An interaction of user u in channel c for the slash command cmd arrives.
\* A name without a command is answered with the unknown-command reply.
\* Within the cooldown window the router answers with the wait time and
\* returns; otherwise it stamps the key and executes the command.
HandleInteraction(u, c, cmd, lang, ajv) ==
  LET p == "slash"
      key == CooldownKey(u, cmd)
      timestamps == cooldowns[cmd]
      cooldownAmount == Cooldown(cmd) * 1000
  IN
  /\ pc[p] = "idle"
  /\ nops < CoolMaxOps
  /\ IF cmd \notin Commands THEN
       /\ Answer(p, [NoOp EXCEPT !.kind = cmd, !.userId = u, !.channelId = c,
                                 !.via = p], UnknownReply)
       /\ UNCHANGED <<cooldowns, dispatched>>
     ELSE IF OnCooldown(timestamps, key, cooldownAmount) THEN
       /\ pc' = [pc EXCEPT ![p] = "done"]
       /\ op' = [op EXCEPT ![p] = [NoOp EXCEPT !.kind = cmd, !.userId = u,
                                               !.channelId = c, !.via = p]]
       /\ reply' = [reply EXCEPT ![p] =
                       WaitReply(Val(timestamps[key]) + cooldownAmount - dateNow)]
       /\ nops' = nops + 1
       /\ UNCHANGED <<ret, ctx, prefs, pend, obs, got, stores, clock, lastWrite,
                      cooldowns, dispatched>>
     ELSE
       /\ cooldowns' = [cooldowns EXCEPT ![cmd][key] = Some(dateNow)]
       /\ dispatched' = [dispatched EXCEPT ![<<u, cmd>>] = Some(dateNow)]
       /\ IF cmd = "chat" THEN StartChat(p, u, c) ELSE StartSettings(p, u, lang, ajv)
  /\ UNCHANGED <<faults, dateNow, reminders, annex>>

\* Time passes between two interactions.
CoolTick ==
  /\ \A q \in Procs : pc[q] = "idle"
  /\ ticks < CoolMaxTicks
  /\ ticks' = ticks + 1
  /\ dateNow' = dateNow + CoolTickStep
  /\ now' = dateNow' \div 1000
  /\ UNCHANGED <<locals, stores, nops, obs, got, lastWrite, faults, cooldowns,
                 dispatched, reminders, annex>>

\* The calls of the commands the slash router executes.
SlashStep(p, ok) ==
  \/ GetContextRead(p, ok)
  \/ GetContextStore(p, ok)
  \/ GupCacheGet(p, ok)
  \/ GupSelect(p, ok)
  \/ GupInsert(p, ok)
  \/ GupCacheSet(p, ok)
  \/ ProcessMessage(p, ok)
  \/ UpdateCacheSet(p, ok)
  \/ StoreContextInDatabase(p, ok)
  \/ UpdatePrefsDb(p, ok)
  \/ UpdatePrefsCache(p, ok)

\* CoolSpec: the slash router alone; interactions of two users for two
\* commands arrive while the millisecond clock advances; at most MaxFaults
\* calls fail.
CoolNext ==
  \/ \E u \in Users, c \in Channels, cmd \in CommandNames, s \in SettingsInputs :
        HandleInteraction(u, c, cmd, s[1], s[2])
  \/ SlashStep("slash", TRUE) /\ UNCHANGED <<faults, router, reminders, annex>>
  \/ /\ faults < MaxFaults /\ SlashStep("slash", FALSE)
     /\ faults' = faults + 1 /\ UNCHANGED <<router, reminders, annex>>
  \/ Finish("slash") /\ UNCHANGED <<faults, router, reminders, annex>>
  \/ CoolTick

CoolSpec == Init /\ [][CoolNext]_vars


\* ------------------------------ handleInteraction, interactions in flight
\* Variant: the timestamp is not recorded before the command is executed.
Arrive_unstamped(u, cmd) ==
  LET key == CooldownKey(u, cmd)
      entry(state) == [userId |-> u, cmd |-> cmd, state |-> state, at |-> dateNow]
  IN
  /\ Len(inflight) < GateMaxOps
  /\ IF cmd \notin Commands THEN
       /\ inflight' = Append(inflight, entry("unknown"))
       /\ UNCHANGED <<cooldowns, dispatched>>
     ELSE IF OnCooldown(cooldowns[cmd], key, Cooldown(cmd) * 1000) THEN
       /\ inflight' = Append(inflight, entry("rejected"))
       /\ UNCHANGED <<cooldowns, dispatched>>
     ELSE
       /\ inflight' = Append(inflight, entry("executing"))
       /\ UNCHANGED <<cooldowns, dispatched>>
  /\ UNCHANGED <<locals, stores, clock, nops, obs, got, lastWrite, faults, dateNow,
                 reminders, msg, voice, pipecat>>

\* handleInteraction from its start to its first await: an unknown name and
\* an invocation inside the cooldown window are answered (await
\* interaction.reply); otherwise the timestamp is recorded and the command is
\* started (await command.execute).  No await lies between the check and
\* timestamps.set.
Arrive(u, cmd) ==
  LET key == CooldownKey(u, cmd)
      entry(state) == [userId |-> u, cmd |-> cmd, state |-> state, at |-> dateNow]
  IN
  /\ Len(inflight) < GateMaxOps
  /\ IF cmd \notin Commands THEN
       /\ inflight' = Append(inflight, entry("unknown"))
       /\ UNCHANGED <<cooldowns, dispatched>>
     ELSE IF OnCooldown(cooldowns[cmd], key, Cooldown(cmd) * 1000) THEN
       /\ inflight' = Append(inflight, entry("rejected"))
       /\ UNCHANGED <<cooldowns, dispatched>>
     ELSE
       /\ inflight' = Append(inflight, entry("executing"))
       /\ cooldowns' = [cooldowns EXCEPT ![cmd][key] = Some(dateNow)]
       /\ dispatched' = [dispatched EXCEPT ![<<u, cmd>>] = Some(dateNow)]
  /\ UNCHANGED <<locals, stores, clock, nops, obs, got, lastWrite, faults, dateNow,
                 reminders, msg, voice, pipecat>>

\* command.execute of the i-th interaction settles: it returned, or it threw
\* and the catch of handleInteraction sent the error reply.
Settle(i, ok) ==
  /\ i \in DOMAIN inflight
  /\ inflight[i].state = "executing"
  /\ inflight' = [inflight EXCEPT ![i].state = IF ok THEN "done" ELSE "failed"]
  /\ UNCHANGED <<locals, stores, clock, nops, obs, got, lastWrite, faults, router,
                 reminders, msg, voice, pipecat>>

\* GateSpec: interactions arrive while the commands of earlier ones are
\* still executing, and the millisecond clock advances.
GateNext ==
  \/ \E u \in Users, cmd \in CommandNames : Arrive(u, cmd)
  \/ \E i \in 1..GateMaxOps, ok \in BOOLEAN : Settle(i, ok)
  \/ CoolTick

GateSpec == Init /\ [][GateNext]_vars

\* ------------------------------------------------------------ VoiceHandler
\* What the voice router does not touch.
botVars == <<locals, stores, clock, nops, obs, got, lastWrite, faults, router,
             reminders, msg, inflight>>

\* this.activeSessions.get(guildId)
GetActiveSessionForGuild(g) == voiceSessions[g]

\* this.activeSessions.get(guildId) || null
GetSessionStatus(g) == voiceSessions[g]

\* getActiveGuildId returns the first guild of the map with an active session.
ActiveGuildIds == {g \in Guilds : IsSome(voiceSessions[g]) /\ Val(voiceSessions[g]).isActive}

\* The voice channel user u is in, if any.
Where(u) == {ch \in VoiceChannels : u \in members[ch]}

\* joinVoiceChannel(channelId): the channel is looked up and the join is
\* logged; no session is created or registered.
JoinVoiceChannel(ch, via, ev) ==
  /\ joined' = [joined EXCEPT ![GuildOf(ch)] = Append(@, [channelId |-> ch, via |-> via])]
  /\ vlast' = [ev EXCEPT !.joinCall = TRUE]
  /\ UNCHANGED voiceSessions

\* leaveVoiceChannel(): without an active session it returns; otherwise it
\* deletes the session of the guild getActiveGuildId returned.
LeaveVoiceChannel(ev) ==
  IF ActiveGuildIds = {} THEN
    /\ vlast' = ev
    /\ UNCHANGED <<voiceSessions, joined>>
  ELSE
    \E g \in ActiveGuildIds :
      /\ voiceSessions' = [voiceSessions EXCEPT ![g] = None]
      /\ joined' = [joined EXCEPT ![g] = <<>>]
      /\ vlast' = [ev EXCEPT !.left = TRUE]

VoiceEvent(kind, ch) ==
  [NoVoiceEvent EXCEPT !.kind = kind, !.guildId = GuildOf(ch), !.channelId = ch]

\* User u enters voice channel ch; mayConnect says whether the bot has the
\* Connect and Speak permissions there.
HandleUserJoinedVoice(u, ch, mayConnect) ==
  /\ nvoice < VoiceMaxEvents
  /\ Where(u) = {}
  /\ members' = [members EXCEPT ![ch] = @ \cup {u}]
  /\ nvoice' = nvoice + 1
  /\ IF \/ ~VOICE_CHANNEL_AUTO_JOIN
        \/ IsSome(GetActiveSessionForGuild(GuildOf(ch)))
        \/ ~mayConnect
     THEN /\ vlast' = VoiceEvent("joined", ch)
          /\ UNCHANGED <<voiceSessions, joined>>
     ELSE JoinVoiceChannel(ch, "auto", VoiceEvent("joined", ch))
  /\ UNCHANGED <<botVars, pipecat>>

\* User u leaves the voice channel they are in.
HandleUserLeftVoice(u) ==
  /\ nvoice < VoiceMaxEvents
  /\ \E ch \in Where(u) :
       /\ members' = [members EXCEPT ![ch] = @ \ {u}]
       /\ IF ~IsSome(GetActiveSessionForGuild(GuildOf(ch))) THEN
            /\ vlast' = VoiceEvent("left", ch)
            /\ UNCHANGED <<voiceSessions, joined>>
          ELSE IF Cardinality(members'[ch]) <= 1 THEN
            LeaveVoiceChannel(VoiceEvent("left", ch))
          ELSE
            /\ vlast' = VoiceEvent("left", ch)
            /\ UNCHANGED <<voiceSessions, joined>>
  /\ nvoice' = nvoice + 1
  /\ UNCHANGED <<botVars, pipecat>>

\* User u moves to voice channel ch2 of the same guild.
HandleUserMovedVoice(u, ch2) ==
  /\ nvoice < VoiceMaxEvents
  /\ \E ch \in Where(u) :
       /\ ch2 # ch /\ GuildOf(ch2) = GuildOf(ch)
       /\ members' = [members EXCEPT ![ch] = @ \ {u}, ![ch2] = @ \cup {u}]
       /\ LET session == GetActiveSessionForGuild(GuildOf(ch)) IN
          IF ~IsSome(session) THEN
            /\ vlast' = VoiceEvent("moved", ch)
            /\ UNCHANGED <<voiceSessions, joined>>
          ELSE IF Val(session).channelId = ch /\ Cardinality(members'[ch]) <= 1 THEN
            LeaveVoiceChannel(VoiceEvent("moved", ch))
          ELSE
            /\ vlast' = VoiceEvent("moved", ch)
            /\ UNCHANGED <<voiceSessions, joined>>
  /\ nvoice' = nvoice + 1
  /\ UNCHANGED <<botVars, pipecat>>

\* The voice state of the bot itself changes: the event is ignored.
HandleOwnVoiceState(ch) ==
  /\ nvoice < VoiceMaxEvents
  /\ vlast' = VoiceEvent("own", ch)
  /\ nvoice' = nvoice + 1
  /\ UNCHANGED <<voiceSessions, members, joined, botVars, pipecat>>

\* A voice-state event whose member is missing: userId is undefined and the
\* event is ignored.
HandleVoiceStateWithoutUser(ch) ==
  /\ nvoice < VoiceMaxEvents
  /\ vlast' = VoiceEvent("nouser", ch)
  /\ nvoice' = nvoice + 1
  /\ UNCHANGED <<voiceSessions, members, joined, botVars, pipecat>>

ForceJoinVoiceChannel(ch) ==
  /\ nvoice < VoiceMaxEvents
  /\ JoinVoiceChannel(ch, "force", VoiceEvent("forceJoin", ch))
  /\ nvoice' = nvoice + 1
  /\ UNCHANGED <<members, botVars, pipecat>>

ForceLeaveVoiceChannel ==
  /\ nvoice < VoiceMaxEvents
  /\ LeaveVoiceChannel(VoiceEvent("forceLeave", "v1"))
  /\ nvoice' = nvoice + 1
  /\ UNCHANGED <<members, botVars, pipecat>>

\* VoiceSpec: the voice router alone, the events handled one after the other.
VoiceNext ==
  \/ \E u \in Users, ch \in VoiceChannels, mayConnect \in BOOLEAN :
        HandleUserJoinedVoice(u, ch, mayConnect)
  \/ \E u \in Users : HandleUserLeftVoice(u)
  \/ \E u \in Users, ch2 \in VoiceChannels : HandleUserMovedVoice(u, ch2)
  \/ \E ch \in VoiceChannels : HandleOwnVoiceState(ch)
  \/ \E ch \in VoiceChannels : HandleVoiceStateWithoutUser(ch)
  \/ \E ch \in VoiceChannels : ForceJoinVoiceChannel(ch)
  \/ ForceLeaveVoiceChannel

VoiceSpec == Init /\ [][VoiceNext]_vars

\* The texts of the messages of FilterSpec: none, conversation, a command
\* that calls no service and one that calls the text service.
FilterBodies == {<<>>, <<"hello">>, <<"ping">>, <<"weather", " ", "paris">>}

\* FilterSpec: the message router, and the voice-state events the voice
\* router ignores arriving in between.
FilterNext ==
  \/ \E u \in Users, c \in Channels, m \in Messages :
        /\ nops < MsgMaxOps
        /\ m.body \in FilterBodies
        /\ HandleMessage(u, c, m)
        /\ UNCHANGED <<faults, router, reminders, voice, pipecat, inflight>>
  \/ \E ok \in BOOLEAN : MsgStep("message", ok) /\ UNCHANGED <<faults, router, reminders, annex>>
  \/ Finish("message") /\ UNCHANGED <<faults, router, reminders, annex>>
  \/ \E ch \in VoiceChannels : nvoice < FilterMaxEvents /\ HandleOwnVoiceState(ch)
  \/ \E ch \in VoiceChannels : nvoice < FilterMaxEvents /\ HandleVoiceStateWithoutUser(ch)

FilterSpec == Init /\ [][FilterNext]_vars

\* ---------------------------------------------------------- PipecatService
\* Variant: the session is registered before the POST has answered.
StartSession_eager(session, ok) ==
  /\ npipe < PipeMaxCalls
  /\ npipe' = npipe + 1
  /\ pipeSessions' = [pipeSessions EXCEPT ![session.guildId] =
                         Some([session EXCEPT !.isActive = TRUE])]
  /\ plast' = [call |-> "start", id |-> session.guildId, ok |-> ok, threw |-> ~ok,
               wasTracked |-> IsSome(pipeSessions[session.guildId])]
  /\ UNCHANGED <<botVars, voice>>

\* startSession(session): POST /sessions/start; when it succeeds the session
\* is marked active and stored under its guild id, when it fails an Error is
\* thrown.
StartSession(session, ok) ==
  /\ npipe < PipeMaxCalls
  /\ npipe' = npipe + 1
  /\ IF ok THEN
       pipeSessions' = [pipeSessions EXCEPT ![session.guildId] =
                          Some([session EXCEPT !.isActive = TRUE])]
     ELSE UNCHANGED pipeSessions
  /\ plast' = [call |-> "start", id |-> session.guildId, ok |-> ok, threw |-> ~ok,
               wasTracked |-> IsSome(pipeSessions[session.guildId])]
  /\ UNCHANGED <<botVars, voice>>

\* stopSession(sessionId): POST /sessions/<sessionId>/stop; when it succeeds
\* the key sessionId is deleted, when it fails the error is rethrown.
StopSession(sessionId, ok) ==
  /\ npipe < PipeMaxCalls
  /\ npipe' = npipe + 1
  /\ IF ok THEN pipeSessions' = [pipeSessions EXCEPT ![sessionId] = None]
     ELSE UNCHANGED pipeSessions
  /\ plast' = [call |-> "stop", id |-> sessionId, ok |-> ok, threw |-> ~ok,
               wasTracked |-> IsSome(pipeSessions[sessionId])]
  /\ UNCHANGED <<botVars, voice>>

\* PipeSpec: the calls of the voice gateway, one after the other.
PipeNext ==
  \/ \E session \in SessionInputs, ok \in BOOLEAN : StartSession(session, ok)
  \/ \E sessionId \in SessionIds, ok \in BOOLEAN : StopSession(sessionId, ok)

PipeSpec == Init /\ [][PipeNext]_vars

\* ================================================================== claims
HistoryContents(h) == {h[i].content : i \in DOMAIN h}
TurnsOf(p) == {op[p].content, AIContent(op[p].content)}
Completed(p, kind) == pc[p] = "done" /\ op[p].kind = kind

\* C1: when two conversational turns for the same (userId, channelId) have
\* both completed successfully, the cached history contains the user turn and
\* the assistant turn of both (no update is lost).  Stated under Spec.
C1_NoLostUpdate ==
  \A p, q \in Procs :
    ( /\ p # q
      /\ Completed(p, "chat") /\ Completed(q, "chat")
      /\ KeyOf(p) = KeyOf(q)
      /\ reply[p].kind = "content" /\ reply[q].kind = "content" )
    => (TurnsOf(p) \cup TurnsOf(q)) \subseteq HistoryContents(CachedHistory(KeyOf(p)))

\* C2: read-after-write.  When the last write to a key's cache entry was an
\* updateContext(ctx) and its TTL has not run out, a getContext for the key
\* whose cache read succeeds returns at once, and the history it returns is
\* ctx.history: the same turns in the same order, nothing of the entry that
\* was there before.  Stated under SeqSpec.
C2_ReadAfterWrite ==
  [][ \A p \in Procs :
        ( /\ pc[p] = "gc_get" /\ pc'[p] # "gc_get"
          /\ ~obs'[p].getFailed
          /\ lastWrite[KeyOf(p)].op = "update"
          /\ now < lastWrite[KeyOf(p)].at + CONTEXT_TTL )
        => /\ pc'[p] = "pm_post"
           /\ got'[p].history = lastWrite[KeyOf(p)].hist ]_vars

C2_Witness ==
  \E p \in Procs :
    /\ pc[p] = "pm_post" /\ ~obs[p].miss
    /\ lastWrite[KeyOf(p)].op = "update"
    /\ Len(got[p].history) = 4
    /\ got[p].history = lastWrite[KeyOf(p)].hist


\* The preferences a user has: the cached ones, the stored ones, and the
\* defaults when the user has neither.
UserPreferencesOf(u) ==
  LET cached == CacheGet(prefCache, u)
      known == (IF IsSome(cached) THEN {Val(cached)} ELSE {}) \cup
               (IF IsSome(usersDb[u]) THEN {Val(usersDb[u])} ELSE {})
  IN  IF known = {} THEN {DefaultPreferences} ELSE known

\* getContext of task p found no cache entry and has returned to the handler.
ReturnedFresh(p) == pc[p] = "pm_post" /\ obs[p].miss

\* What every getContext that found no entry returns and stores.
FreshShape(p) ==
  /\ got[p].userId = op[p].userId /\ got[p].channelId = op[p].channelId
  /\ got[p].history = <<>>
  /\ got[p].tools = <<>>
  /\ got[p].interactionType = "message"
  /\ CacheGet(ctxCache, KeyOf(p)) = Some(Serialize(got[p]))

\* C3 as stated: for a pair without cache entry and with the cache available,
\* getContext never fails and returns (and caches) a context with empty
\* history, empty tools, the default interactionType and the user's
\* preferences, also when the durable store is failing.  Stated under SeqSpec.
C3_AsStated ==
  \A p \in Procs :
    (obs[p].miss /\ ~obs[p].cacheErr) =>
      /\ (obs[p].gwCalls = 0 => pc[p] # "done")
      /\ (ReturnedFresh(p) =>
            FreshShape(p) /\ got[p].preferences \in UserPreferencesOf(op[p].userId))

\* C3 amended: as above, but the preferences are those getUserPreferences
\* yields: the user's cached or stored preferences when the lookup succeeds,
\* the hardcoded defaults when a durable-store call of the lookup fails (which
\* includes the brand-new user, whose default insert is rejected).
C3_FreshContext ==
  \A p \in Procs :
    (obs[p].miss /\ ~obs[p].cacheErr) =>
      /\ (obs[p].gwCalls = 0 => pc[p] # "done")
      /\ (ReturnedFresh(p) =>
            /\ FreshShape(p)
            /\ IF obs[p].dbErr THEN got[p].preferences = DefaultPreferences
               ELSE got[p].preferences \in UserPreferencesOf(op[p].userId))

\* getContext has returned a fresh context to a registered user while the
\* durable store was failing.
C3_Witness ==
  \E p \in Procs :
    /\ ReturnedFresh(p) /\ ~obs[p].cacheErr /\ obs[p].dbErr
    /\ IsSome(usersDb[op[p].userId])
    /\ FreshShape(p)


\* C4: a getContext that reads the cache after a clearContext of the key has
\* completed successfully, with no updateContext or other write to the key in
\* between, returns a fresh default context with empty history, whatever the
\* history was before the clear.  Stated under SeqSpec.
C4_ClearThenGet ==
  \A p \in Procs :
    obs[p].afterClear =>
      /\ obs[p].miss
      /\ (pc[p] = "pm_post" => FreshShape(p))

C4_Witness ==
  \E p \in Procs :
    /\ pc[p] = "pm_post" /\ obs[p].afterClear
    /\ Len(obs[p].clearedHist) >= 2
    /\ got[p].history = <<>>

\* A step of clearContext by task p.
ClearStep(p) == pc[p] \in {"cc_del", "cc_db"} /\ pc'[p] # pc[p]

\* C5: clearContext is idempotent.  A clearContext of a key whose last
\* operation was a completed clearContext (in particular of a key that never
\* held anything) raises no error of its own - it ends in an error only when
\* a store call fails - and leaves every cache entry and durable row as the
\* first call left them.  Stated under SeqSpec.
C5_ClearIdempotent ==
  /\ [](\A p \in Procs :
          (Completed(p, "clear") /\ obs[p].secondClear
             /\ ~obs[p].cacheErr /\ ~obs[p].dbErr) => reply[p].kind = "cleared")
  /\ [][ \A p \in Procs :
           (ClearStep(p) /\ lastWrite[KeyOf(p)].cleared)
             => (ctxCache' = ctxCache /\ ctxDb' = ctxDb) ]_vars

C5_Witness ==
  \E p \in Procs :
    /\ Completed(p, "clear") /\ obs[p].secondClear
    /\ reply[p].kind = "cleared"
    /\ ctxCache[KeyOf(p)] = None /\ ctxDb[KeyOf(p)] = None

\* C6: a clearContext that returns successfully leaves neither a cache entry
\* nor a conversation_contexts row for its key, and no step of it changes the
\* cache entry or the row of any other key.  Stated under SeqSpec.
C6_ClearBothCopies ==
  /\ [](\A p \in Procs :
          (Completed(p, "clear") /\ reply[p].kind = "cleared")
             => (ctxCache[KeyOf(p)] = None /\ ctxDb[KeyOf(p)] = None))
  /\ [][ \A p \in Procs :
           ClearStep(p) =>
             \A k \in Keys \ {KeyOf(p)} :
               ctxCache'[k] = ctxCache[k] /\ ctxDb'[k] = ctxDb[k] ]_vars

\* A clear of a key that held a history has succeeded while another key has
\* a cache entry.
C6_Witness ==
  \E p \in Procs :
    /\ Completed(p, "clear") /\ reply[p].kind = "cleared"
    /\ lastWrite[KeyOf(p)].hist # <<>>
    /\ ctxCache[KeyOf(p)] = None /\ ctxDb[KeyOf(p)] = None
    /\ \E k \in Keys \ {KeyOf(p)} : IsSome(ctxCache[k])


\* The cache still holds what the updateContext of task p wrote.
HoldsUpdateOf(p) ==
  CacheGet(ctxCache, KeyOf(p)) = Some(Serialize(ctx[p]))

\* No write to the key's cache entry followed the updateContext of task p.
LastWriterIs(p) ==
  lastWrite[KeyOf(p)].op = "update" /\ lastWrite[KeyOf(p)].hist = ctx[p].history

\* C7: when the durable upsert of updateContext fails after the cache write
\* succeeded, updateContext returns normally: the turn ends with its normal
\* reply (the service's content, not an error reply), and the cache holds the
\* new context as long as no later write replaced it.  Stated under Spec.
C7_UpsertFailureSwallowed ==
  \A p \in Procs :
    obs[p].upsertErr =>
      /\ pc[p] = "done"
      /\ reply[p] = ContentReply(p)
      /\ (LastWriterIs(p) => HoldsUpdateOf(p))

\* The upsert of a registered user's turn has failed and the turn has ended.
C7_Witness ==
  \E p \in Procs :
    /\ obs[p].upsertErr /\ IsSome(usersDb[op[p].userId])
    /\ pc[p] = "done" /\ reply[p].kind = "content"
    /\ HoldsUpdateOf(p) /\ ctxDb[KeyOf(p)] = None

\* C8: the reply of a turn does not wait for the durable upsert: a task is
\* never suspended on the upsert of updateContext with its reply still
\* unsent.  Stated under Spec.
C8_ReplyDoesNotWaitForUpsert ==
  \A p \in Procs : pc[p] = "uc_db" => reply[p].kind # "none"

\* A cache call of getContext or updateContext made by task p fails.
CacheCallFails(p) ==
  /\ pc[p] \in {"gc_get", "gc_set", "uc_set"} /\ pc'[p] # pc[p]
  /\ faults' = faults + 1

\* C9: a failing cache call of getContext or updateContext ends the
\* invocation with the generic error reply; after a getContext failure no
\* gateway call has been made, and after an updateContext cache-write failure
\* no durable upsert has been attempted.  Stated under Spec.
C9_CacheFailureIsLoud ==
  /\ [][ \A p \in Procs :
           CacheCallFails(p) =>
             /\ pc'[p] = "done" /\ reply'[p] = ErrorReply
             /\ (pc[p] = "uc_set") = obs'[p].updFailed
             /\ (pc[p] # "uc_set") = obs'[p].getFailed ]_vars
  /\ [](\A p \in Procs :
          /\ obs[p].getFailed =>
               (pc[p] = "done" /\ reply[p] = ErrorReply /\ obs[p].gwCalls = 0)
          /\ obs[p].updFailed =>
               (pc[p] = "done" /\ reply[p] = ErrorReply /\ obs[p].upserts = 0
                  /\ obs[p].gwCalls = 1))

C9_Witness ==
  \E p \in Procs :
    /\ obs[p].updFailed /\ pc[p] = "done" /\ reply[p] = ErrorReply
    /\ obs[p].upserts = 0

\* C10: a durable-store failure during clearContext or updateUserPreferences
\* does not reach the router: an invocation of `clear` or `/settings update`
\* in which a durable-store call failed and every cache call succeeded does
\* not end with an error reply.  Stated under Spec.
C10_DurableFailureNotPropagated ==
  \A p \in Procs :
    ( /\ (Completed(p, "clear") \/ Completed(p, "settings"))
      /\ obs[p].dbErr /\ ~obs[p].cacheErr )
    => reply[p] # ErrorReply

\* ---------------------------------------------------- user preferences
GupLabels == {"gp_get", "gp_sel", "gp_ins", "gp_set"}

\* This step is the return of a getUserPreferences call of task p.
GupReturns(p) == pc[p] \in GupLabels /\ obs'[p].gupCalls = obs[p].gupCalls + 1

\* C11: getUserPreferences is a cache -> durable -> default cascade with
\* write-through.  In a call none of whose cache or database calls is down:
\* a cache hit is returned from the cache read, without a database read; on a
\* miss with a users row the row's preferences are returned and are in the
\* cache afterwards; on a miss without a row (brand-new user) the defaults
\* are returned and are in the cache afterwards.  Stated under SeqSpec.
C11_PreferencesCascade ==
  [][ \A p \in Procs :
        (GupReturns(p) /\ obs'[p].gupSrc # "fault") =>
          LET u == op[p].userId
              cached == CacheGet(prefCache, u)
              after == CacheGet(prefCache', u)
          IN  IF IsSome(cached)
              THEN /\ pc[p] = "gp_get"
                   /\ obs'[p].gupVal = Val(cached)
                   /\ UNCHANGED stores
              ELSE IF IsSome(usersDb[u])
              THEN /\ obs'[p].gupVal = Val(usersDb[u])
                   /\ after = Some(Val(usersDb[u]))
              ELSE /\ obs'[p].gupVal = DefaultPreferences
                   /\ after = Some(DefaultPreferences) ]_vars

\* C12: getUserPreferences never propagates an error.  A step of it in which
\* a cache or database call fails does not end the invocation and sends no
\* reply: the call returns the hardcoded defaults; and a conversational turn
\* whose only failures were inside getUserPreferences ends with its normal
\* reply.  Stated under Spec.
C12_PreferencesNeverThrow ==
  /\ [][ \A p \in Procs :
           (pc[p] \in GupLabels /\ pc'[p] # pc[p] /\ faults' = faults + 1) =>
             /\ pc'[p] # "done" /\ reply'[p] = reply[p]
             /\ GupReturns(p) /\ obs'[p].gupVal = DefaultPreferences ]_vars
  /\ [](\A p \in Procs :
          ( /\ Completed(p, "chat") /\ obs[p].gupErr
            /\ ~obs[p].getFailed /\ ~obs[p].gwFailed /\ ~obs[p].updFailed )
          => reply[p] = ContentReply(p))

\* A turn of a registered user has ended normally although a call of
\* getUserPreferences failed; the context carries the defaults.
C12_Witness ==
  \E p \in Procs :
    /\ Completed(p, "chat") /\ obs[p].gupSrc = "fault"
    /\ IsSome(usersDb[op[p].userId])
    /\ reply[p] = ContentReply(p)
    /\ ctx[p].preferences = DefaultPreferences

\* C13: after updateUserPreferences(userId, partial) has returned
\* successfully, the users row and the cache entry of userId both hold the
\* merged preferences: the fields of partial, and the previous value of the
\* fields partial does not give; for every user, with or without a users row
\* before the call.  Stated under SeqSpec.
C13_UpdatePreferencesBothCopies ==
  \A p \in Procs :
    (Completed(p, "settings") /\ reply[p].kind = "settings") =>
      LET u == op[p].userId IN
      /\ usersDb[u] = Some(pend[p])
      /\ CacheGet(prefCache, u) = Some(pend[p])
      /\ (IsSome(op[p].lang) => pend[p].language = Val(op[p].lang))
      /\ (~IsSome(op[p].ajv) => pend[p].autoJoinVoice = obs[p].gupVal.autoJoinVoice)

\* ------------------------------------------------------- gateway failure
\* History of the entry the key's cache held when the invocation began.
HistoryBefore(p) ==
  IF IsSome(obs[p].before) THEN ParseContext(Val(obs[p].before)).history ELSE <<>>

\* The turn of task p ended in the one-shot failure of its gateway call.
GatewayFailed(p) ==
  /\ pc[p] = "done" /\ reply[p] = ErrorReply
  /\ obs[p].gwCalls = 1 /\ obs[p].upserts = 0

\* C16 as stated: when processMessage fails during a turn, the turn ends with
\* the single generic error reply after exactly one processMessage call,
\* updateContext is not called, and the cache entry of the key is the one
\* that was there before the turn.  Stated under SeqSpec.
C16_AsStated ==
  \A p \in Procs :
    obs[p].gwFailed =>
      /\ GatewayFailed(p)
      /\ CacheGet(ctxCache, KeyOf(p)) = obs[p].before

\* C16 amended: as above, except for the cache entry: none of the turn's
\* messages is kept, the cached history of the key is the one from before the
\* turn; an entry that was there is unchanged, and where there was none the
\* key now holds the fresh empty context getContext stored.
C16_GatewayFailureIsHard ==
  \A p \in Procs :
    obs[p].gwFailed =>
      /\ GatewayFailed(p)
      /\ CachedHistory(KeyOf(p)) = HistoryBefore(p)
      /\ IF IsSome(obs[p].before)
         THEN CacheGet(ctxCache, KeyOf(p)) = obs[p].before
         ELSE CacheGet(ctxCache, KeyOf(p)) = Some(Serialize(got[p])) /\ FreshShape(p)

\* The gateway call of a turn on a key with a cached history has failed.
C16_Witness ==
  \E p \in Procs :
    /\ obs[p].gwFailed /\ GatewayFailed(p)
    /\ Len(HistoryBefore(p)) >= 2
    /\ CacheGet(ctxCache, KeyOf(p)) = obs[p].before

\* ------------------------------------------------------------- cooldowns
\* This step is the arrival of an interaction for one of the router's
\* commands.
Invoked ==
  pc["slash"] = "idle" /\ pc'["slash"] # "idle" /\ op'["slash"].kind \in Commands

\* The arriving interaction is answered with the wait time and nothing else
\* happens: no command runs, no call is made, no store changes.
Rejected ==
  /\ pc'["slash"] = "done" /\ reply'["slash"].kind = "wait"
  /\ obs'["slash"].gwCalls = 0
  /\ UNCHANGED <<stores, cooldowns, dispatched>>

\* The arriving interaction is handed to its command.
Dispatched == pc'["slash"] \in {"gc_get", "gp_get"} /\ reply'["slash"] = NoReply

\* The user's last dispatched invocation of the command is less than the
\* command's cooldown ago.
InWindow(u, cmd) ==
  /\ IsSome(dispatched[<<u, cmd>>])
  /\ dateNow < Val(dispatched[<<u, cmd>>]) + Cooldown(cmd) * 1000

\* C14: when a user's invocation of a slash command was dispatched at time t,
\* every further invocation of that command by that user before t + cooldown
\* is rejected with a wait-time reply and runs nothing (no command, no
\* gateway call), and an invocation at or after t + cooldown is dispatched.
\* Stated under CoolSpec.
C14_Cooldown ==
  /\ [][ Invoked =>
           LET u == op'["slash"].userId
               cmd == op'["slash"].kind
           IN  IF InWindow(u, cmd)
               THEN Rejected /\ reply'["slash"].content > 0
               ELSE Dispatched /\ dispatched'[<<u, cmd>>] = Some(dateNow) ]_vars
  /\ [](reply["slash"].kind = "wait" =>
          (pc["slash"] = "done" /\ obs["slash"].gwCalls = 0))

\* A /chat was rejected two clock advances after the user's /chat was
\* dispatched, with the rest of the window as wait time.
C14_Witness ==
  \E u \in Users :
    /\ op["slash"].userId = u /\ op["slash"].kind = "chat"
    /\ pc["slash"] = "done" /\ reply["slash"].kind = "wait"
    /\ IsSome(dispatched[<<u, "chat">>])
    /\ dateNow = Val(dispatched[<<u, "chat">>]) + 2 * CoolTickStep
    /\ reply["slash"].content = CHAT_COOLDOWN * 1000 - 2 * CoolTickStep

\* C15: the cooldown is per user and per command.  An invocation of command
\* X by user A is rejected only inside A's own window for X, whatever other
\* users and other commands did; and it starts no window but that of (A, X).
\* Stated under CoolSpec.
C15_CooldownPerUserPerCommand ==
  [][ Invoked =>
        LET u == op'["slash"].userId
            cmd == op'["slash"].kind
        IN  /\ (reply'["slash"].kind = "wait" => InWindow(u, cmd))
            /\ \A u2 \in Users, cmd2 \in Commands :
                 <<u2, cmd2>> # <<u, cmd>> =>
                   dispatched'[<<u2, cmd2>>] = dispatched[<<u2, cmd2>>] ]_vars

\* u2's /chat is dispatched inside the window of u1's /chat, and u1's
\* /settings inside the window of u1's /chat.
C15_Witness ==
  /\ pc["slash"] = "gp_get" /\ op["slash"].kind = "settings"
  /\ op["slash"].userId = "u1"
  /\ dispatched[<<"u1", "chat">>] = Some(dateNow)
  /\ dispatched[<<"u2", "chat">>] = Some(dateNow)
  /\ dispatched[<<"u1", "settings">>] = Some(dateNow)

\* ---------------------------------------------------------------- history
\* s is the last n elements of h, in h's order.
IsTail(s, h, n) ==
  /\ Len(s) = n /\ n <= Len(h)
  /\ \A i \in 1..n : s[i] = h[Len(h) - n + i]

\* The two turns a successful turn of task p adds.
TurnPair(p) ==
  LET h == ctx[p].history IN
  /\ Len(h) >= 2
  /\ h[Len(h) - 1].role = "user" /\ h[Len(h) - 1].content = op[p].content
  /\ h[Len(h)].role = "assistant" /\ h[Len(h)].content = AIContent(op[p].content)

\* C17: history is append-only and only truncated on the wire.  The request
\* to the text service carries exactly the last min(10, n) turns of the
\* n-turn history, in their order, while context.history keeps all n turns;
\* the assistant turn is appended to them; and the updateContext of a turn
\* whose getContext found the entry leaves in the cache the history that was
\* there followed by the turn's two turns - so k sequential successful turns
\* leave all 2k turns in insertion order.  Stated under LongSpec.
C17_AppendOnlyHistory ==
  /\ [](\A p \in Procs :
          pc[p] = "pm_post" =>
            /\ IsTail(obs[p].wire, ctx[p].history,
                      Min(HISTORY_WINDOW, Len(ctx[p].history)))
            /\ Len(ctx[p].history) = Len(got[p].history) + 1
            /\ IsTail(got[p].history, SubSeq(ctx[p].history, 1, Len(got[p].history)),
                      Len(got[p].history)))
  /\ [][ \A p \in Procs :
           /\ (pc[p] = "pm_post" /\ pc'[p] = "uc_set") =>
                 /\ Len(ctx'[p].history) = Len(ctx[p].history) + 1
                 /\ SubSeq(ctx'[p].history, 1, Len(ctx[p].history)) = ctx[p].history
           /\ (pc[p] = "uc_set" /\ pc'[p] = "uc_db") =>
                 /\ TurnPair(p)
                 /\ CachedHistory(KeyOf(p))' = ctx[p].history
                 /\ (~obs[p].miss =>
                       CachedHistory(KeyOf(p)) =
                         SubSeq(ctx[p].history, 1, Len(ctx[p].history) - 2)) ]_vars

\* The second new turn on top of MaxPairs earlier ones is posted: the history
\* has 2 * MaxPairs + 3 turns, the request carries the last ten.
C17_Witness ==
  \E p \in Procs :
    /\ pc[p] = "pm_post" /\ nops = 2
    /\ Len(ctx[p].history) = 2 * MaxPairs + 3
    /\ Len(obs[p].wire) = HISTORY_WINDOW
    /\ obs[p].wire[HISTORY_WINDOW].content = op[p].content
    /\ obs[p].wire[1] = ctx[p].history[2 * MaxPairs + 3 - HISTORY_WINDOW + 1]

\* -------------------------------------------------------------- commands
\* The command of task p has ended with the reply of its success path.
Succeeded(p, kind) ==
  /\ Completed(p, kind)
  /\ reply[p].kind \in {"content", "reminder"}

\* C18: `!weather <location>` with a non-empty location forwards the prompt
\* "What's the weather like in <location>?" together with the user's existing
\* context, replies with the service's content as it is, and leaves the
\* context persisted with the user turn and the assistant turn appended to
\* the history that was there.  Stated under CmdSpec.
C18_WeatherEndToEnd ==
  \A p \in Procs :
    Succeeded(p, "weather") =>
      /\ obs[p].gwCalls = 1
      /\ obs[p].prompt = WeatherPrompt(op[p].args[1])
      /\ obs[p].wire = WireHistory(got[p].history)
      /\ reply[p] = ContentReply(p)
      /\ LET h == CachedHistory(KeyOf(p))
             n == Len(HistoryBefore(p))
         IN  /\ Len(h) = n + 2
             /\ SubSeq(h, 1, n) = HistoryBefore(p)
             /\ h[n + 1].role = "user" /\ h[n + 2].role = "assistant"
             /\ h[n + 2].content = AIContent(op[p].content)

\* C19: /remind defers the reply before the text service is called, makes
\* exactly one processMessage call whose prompt embeds the message and the
\* time, and replies with `Reminder set: "<message>" - <content>` when the
\* call succeeds and with one error reply when it fails.  Stated under
\* CmdSpec.
C19_SlashRemindEndToEnd ==
  \A p \in Procs :
    (op[p].kind = "remind" /\ op[p].via = "slash") =>
      /\ obs[p].gwCalls <= 1
      /\ (obs[p].gwCalls = 1 =>
            /\ obs[p].deferred
            /\ obs[p].prompt.args = <<op[p].args[1], op[p].args[2]>>
            /\ obs[p].prompt = SlashRemindPrompt(op[p].args[1], op[p].args[2]))
      /\ (pc[p] = "done" /\ obs[p].gwCalls = 1 /\ ~obs[p].gwFailed =>
            reply[p] = [kind |-> "reminder", content |-> AIContent(op[p].content),
                        quote |-> <<op[p].args[1]>>])
      /\ (obs[p].gwFailed => pc[p] = "done" /\ reply[p] = ErrorReply)

\* A /remind has been answered with the reminder text.
C19_Witness ==
  \E p \in Procs :
    /\ Completed(p, "remind") /\ op[p].via = "slash"
    /\ obs[p].deferred /\ obs[p].gwCalls = 1
    /\ reply[p].kind = "reminder" /\ reply[p].quote = <<8>>

\* C20: a remind command that has completed successfully (/remind or
\* `!remind`) has left a reminders row of the user and the channel, not
\* completed, with the command's message.  Stated under CmdSpec.
C20_RemindPersistsReminder ==
  \A p \in Procs :
    Succeeded(p, "remind") =>
      \E r \in reminders :
        /\ r.userId = op[p].userId /\ r.channelId = op[p].channelId
        /\ r.message = op[p].args[1]
        /\ ~r.isCompleted

\* ------------------------------------------------------- error isolation
\* A call made by task p fails in this step.
CallFails(p) == pc'[p] # pc[p] /\ faults' = faults + 1

\* The invocation of task p is one in which a call failed and was not
\* swallowed.
OwnFailure(p) ==
  obs[p].cacheErr \/ obs[p].dbErr \/ obs[p].getFailed \/ obs[p].gwFailed
    \/ obs[p].updFailed

\* C26: errors are isolated per invocation: a failing gateway, cache or
\* durable-store call of one invocation is caught (the invocation goes on or
\* ends with a reply, the task is ready for the next event), and it
\* leaves a concurrent invocation of another user as it was: its position,
\* its context object, its reply and the cached context of its user do not
\* change, and that invocation ends with an error reply only when one of its
\* own calls failed.  Stated under Spec.
C26_ErrorsIsolated ==
  /\ [][ \A p \in Procs :
           CallFails(p) =>
             /\ pc'[p] = "done" => reply'[p] # NoReply
             /\ \A q \in Procs \ {p} :
                  /\ pc'[q] = pc[q] /\ reply'[q] = reply[q] /\ ctx'[q] = ctx[q]
                  /\ op[q].userId # op[p].userId =>
                       \A c \in Channels :
                         ctxCache'[<<op[q].userId, c>>] = ctxCache[<<op[q].userId, c>>] ]_vars
  /\ [](\A q \in Procs :
          (pc[q] = "done" /\ reply[q] = ErrorReply) => OwnFailure(q))

\* The invocation of one user has ended with the error reply after a failed
\* call while the invocation of another user, started before the first one
\* returned, has ended with the service's answer.
C26_Witness ==
  \E p, q \in Procs :
    /\ op[p].userId # op[q].userId
    /\ Completed(p, "chat") /\ reply[p] = ErrorReply /\ obs[p].gwFailed
    /\ Completed(q, "chat") /\ reply[q] = ContentReply(q) /\ ~OwnFailure(q)
    /\ CachedHistory(KeyOf(q)) = <<Turn("user", op[q].content, 0, op[q].via),
                                    Turn("assistant", AIContent(op[q].content), 0, op[q].via)>>

\* ----------------------------------------------------------- cache expiry
\* C27: the cached context expires on its own: an entry is in the cache
\* exactly until CONTEXT_TTL seconds after the last write of its key (its
\* creation by getContext or an updateContext); a read does not write the
\* entry, the passing of time changes neither store, and a getContext that
\* finds the entry expired returns a context with an empty history whatever
\* the conversation_contexts row of the key holds.  Stated under SeqSpec.
C27_CacheExpiry ==
  /\ [](\A k \in Keys :
          IsSome(CacheGet(ctxCache, k)) <=>
            /\ lastWrite[k].op \in {"create", "update"}
            /\ now < lastWrite[k].at + CONTEXT_TTL)
  /\ [][ /\ now' # now => (ctxDb' = ctxDb /\ ctxCache' = ctxCache)
         /\ \A p \in Procs :
              (pc[p] = "gc_get" /\ pc'[p] # pc[p]) =>
                 (ctxCache' = ctxCache /\ ctxDb' = ctxDb) ]_vars
  /\ [](\A p \in Procs :
          (obs[p].expired /\ obs[p].gwCalls > 0) => got[p].history = <<>>)

\* A turn was recorded at time 0; CONTEXT_TTL seconds later getContext has
\* found the entry expired and has returned an empty history, while the row
\* of the key still holds the two turns.
C27_Witness ==
  \E p \in Procs :
    /\ now >= CONTEXT_TTL
    /\ obs[p].expired /\ obs[p].gwCalls > 0 /\ got[p].history = <<>>
    /\ IsSome(ctxDb[KeyOf(p)]) /\ Len(Val(ctxDb[KeyOf(p)]).history) = 2

\* ------------------------------------------------- every event is answered
\* C29: every chat-input interaction handed to handleInteraction has received
\* a response when handleInteraction completes: the unknown-command reply
\* for a name without a command, the wait-time reply inside the cooldown
\* window, the command's own reply when it ran, the error reply when a call
\* failed.  Stated under CoolSpec.
C29_InteractionAnswered ==
  /\ pc["slash"] = "done" => reply["slash"] # NoReply
  /\ (pc["slash"] = "done" /\ op["slash"].kind \notin Commands)
        => reply["slash"] = UnknownReply

\* A /chat interaction in which a call failed has ended with the error reply.
C29_Witness ==
  /\ Completed("slash", "chat") /\ faults = 1
  /\ reply["slash"] = ErrorReply
  /\ obs["slash"].gwFailed

\* --------------------------------------------------------- prefix commands
\* The message router hands a message to one of the handlers of remind,
\* weather, search and translate.
ArgCommands == {"remind", "weather", "search", "translate"}

\* C21: handleRemindCommand, handleWeatherCommand, handleSearchCommand and
\* handleTranslateCommand, called without arguments, answer with the usage
\* text and return: the reply is the usage reply and not the error reply, no
\* cache entry and no row is read or written, and processMessage is not
\* called.  Stated under MsgSpec.
C21_UsageHint ==
  /\ [][ ( /\ pc["message"] = "idle" /\ pc'["message"] # "idle"
           /\ op'["message"].kind \in ArgCommands
           /\ op'["message"].args = <<>> )
         => /\ pc'["message"] = "done"
            /\ reply'["message"] = UsageReply
            /\ reply'["message"] # ErrorReply
            /\ UNCHANGED stores ]_vars
  /\ [](\A p \in Procs :
          (op[p].kind \in ArgCommands /\ op[p].via = "message" /\ op[p].args = <<>>)
            => (pc[p] = "done" /\ obs[p].gwCalls = 0 /\ ~obs[p].miss))

\* `!search` has been answered with the usage text.
C21_Witness ==
  /\ msg.lead.kind = "prefix" /\ msg.body = <<"search">>
  /\ Completed("message", "search") /\ op["message"].args = <<>>
  /\ reply["message"] = UsageReply
  /\ obs["message"].gwCalls = 0

\* --------------------------------------------------- command or conversation
\* The message is one the claims call addressed to the bot: written by a
\* user, in a channel the bot may answer in, opening with the prefix or a
\* mention of the bot or sent as a DM, and with text after that opening.
Addressed(m) ==
  /\ ~m.authorBot /\ m.place # "guild_noperm"
  /\ (m.lead.kind \in {"prefix", "mention"} \/ m.place = "dm")
  /\ m.body # <<>>

\* C22: a message that opens with the prefix, or a DM without prefix and
\* mention, is handled as a command exactly when its first word, lower-cased,
\* is one of help, ping, info, status, clear, reset, remind, time, weather,
\* search, translate, and as conversation otherwise; it takes one of the
\* two paths.  Stated under MsgSpec.
C22_TwoWaySplit ==
  ( /\ pc["message"] # "idle"
    /\ Addressed(msg) /\ msg.lead.kind # "mention" )
  => /\ op["message"].kind # "ignored"
     /\ (op["message"].kind # "chat") <=> (ToLowerCase(msg.body[1]) \in validCommands)

\* C30: an addressed message has a reply when handleMessage has completed.
\* Stated under MsgSpec.
C30_AddressedMessageAnswered ==
  (pc["message"] = "done" /\ Addressed(msg)) => reply["message"] # NoReply

\* ------------------------------------------------------------ voice sessions
\* The channel the router joined last in guild g and has not left.
BotChannel(g) == joined[g][Len(joined[g])].channelId

\* C23: a voice session exists exactly while the bot is in a voice channel:
\* after a join (automatic or forced) getSessionStatus of the guild returns a
\* session for the joined channel, and after the leave it returns null.
\* Stated under VoiceSpec.
C23_SessionWhileInChannel ==
  \A g \in Guilds :
    IF joined[g] # <<>>
    THEN /\ IsSome(GetSessionStatus(g))
         /\ Val(GetSessionStatus(g)).channelId = BotChannel(g)
    ELSE ~IsSome(GetSessionStatus(g))

\* C24: at most one voice session per guild: the router does not join a
\* channel of a guild in which it has joined a channel and has not left it.
\* Stated under VoiceSpec.
C24_OneSessionPerGuild ==
  \A g \in Guilds :
    \A i \in 2..Len(joined[g]) : joined[g][i].via # "auto"

\* C25: when a user leaves or moves out of a voice channel, the router
\* leaves exactly when that channel is the one the bot is in and no user
\* remains in it.  Stated under VoiceSpec.
C25_LeaveWhenEmpty ==
  [][ (nvoice' # nvoice /\ vlast'.kind \in {"left", "moved"}) =>
        LET g == vlast'.guildId
            ch == vlast'.channelId
        IN  vlast'.left <=>
              (joined[g] # <<>> /\ BotChannel(g) = ch /\ members'[ch] = {}) ]_vars

\* ------------------------------------------------------------ voice gateway
\* C28: the voice gateway tracks exactly the sessions it started.  A call
\* changes no entry but its own; startSession registers the session (active,
\* under its guild id) when the remote start succeeded, and throws and
\* registers nothing when it failed; stopSession removes the entry when the
\* remote stop succeeded, and throws and keeps it when it failed.  Stated
\* under PipeSpec.
C28_TracksStartedSessions ==
  [][ npipe' # npipe =>
        LET id == plast'.id IN
        /\ plast'.threw = ~plast'.ok
        /\ \A k \in SessionIds \ {id} : pipeSessions'[k] = pipeSessions[k]
        /\ ~plast'.ok => pipeSessions'[id] = pipeSessions[id]
        /\ (plast'.call = "start" /\ plast'.ok) =>
              /\ IsSome(pipeSessions'[id])
              /\ Val(pipeSessions'[id]).guildId = id
              /\ Val(pipeSessions'[id]).isActive
        /\ (plast'.call = "stop" /\ plast'.ok) => ~IsSome(pipeSessions'[id]) ]_vars

\* A session that was started is stopped: it is tracked no more, while the
\* session of the other guild still is.
C28_Witness ==
  /\ plast.call = "stop" /\ plast.ok /\ plast.wasTracked /\ plast.id = "g1"
  /\ ~IsSome(pipeSessions["g1"])
  /\ IsSome(pipeSessions["g2"])

\* ---------------------------------------------------- order within a turn
\* History h is history g followed by the user turn of task p and, when
\* answered, by the assistant turn.
IsUserTurnOf(p, t) == t.role = "user" /\ t.content = op[p].content
IsAssistantTurnOf(p, t) == t.role = "assistant" /\ t.content = AIContent(op[p].content)

ExtendsByUser(p, h, g) ==
  /\ Len(h) = Len(g) + 1 /\ SubSeq(h, 1, Len(g)) = g
  /\ IsUserTurnOf(p, h[Len(g) + 1])

ExtendsByBoth(p, h, g) ==
  /\ Len(h) = Len(g) + 2 /\ SubSeq(h, 1, Len(g)) = g
  /\ IsUserTurnOf(p, h[Len(g) + 1]) /\ IsAssistantTurnOf(p, h[Len(g) + 2])

\* C31: the order of a conversational turn.  While the gateway call is in
\* flight the handler's context is what getContext returned plus the user
\* turn; when updateContext is called it is that plus the assistant turn,
\* after exactly one gateway call; the success reply is sent by the step
\* that completes updateContext, after its cache write, so that when the
\* reply is out the cache holds both turns unless a later write or delete of
\* another invocation replaced the entry.  Stated under Spec.
C31_TurnOrder ==
  /\ [](\A p \in Procs :
          op[p].kind = "chat" =>
            /\ pc[p] = "pm_post" =>
                 (ExtendsByUser(p, ctx[p].history, got[p].history)
                    /\ obs[p].gwCalls = 1 /\ obs[p].upserts = 0)
            /\ pc[p] \in {"uc_set", "uc_db"} =>
                 (ExtendsByBoth(p, ctx[p].history, got[p].history)
                    /\ obs[p].gwCalls = 1 /\ reply[p] = NoReply)
            /\ reply[p].kind = "content" =>
                 /\ pc[p] = "done" /\ obs[p].upserts = 1
                 /\ LastWriterIs(p) =>
                      ExtendsByBoth(p, CachedHistory(KeyOf(p)), got[p].history))
  /\ [][ \A p \in Procs :
           (op[p].kind = "chat" /\ reply'[p].kind = "content" /\ reply[p].kind # "content")
             => pc[p] = "uc_db" ]_vars

\* A turn on top of an earlier one has been answered: the cache holds the
\* earlier two turns and the two of this turn.
C31_Witness ==
  \E p \in Procs :
    /\ Completed(p, "chat") /\ reply[p] = ContentReply(p)
    /\ Len(got[p].history) = 2
    /\ LastWriterIs(p)
    /\ ExtendsByBoth(p, CachedHistory(KeyOf(p)), got[p].history)
    /\ Len(CachedHistory(KeyOf(p))) = 4

\* ---------------------------------------------------- preference snapshot
\* The preferences inside the cached context of key k.
CachedPreferences(k) == ParseContext(Val(CacheGet(ctxCache, k))).preferences

\* C32: the preferences inside a context are a snapshot taken when the
\* context is created.  No step of `/settings update` changes a cached
\* context or a conversation_contexts row; as long as the cache entry of a
\* key exists (it was neither cleared nor expired) its preferences stay what
\* they were, whatever is written to it; and the row updateContext upserts
\* carries the preferences of the entry.  Stated under SeqSpec.
C32_PreferencesSnapshot ==
  /\ [][ \A p \in Procs :
           (op[p].kind = "settings" /\ pc'[p] # pc[p]) =>
              (ctxCache' = ctxCache /\ ctxDb' = ctxDb) ]_vars
  /\ [][ \A k \in Keys :
           (IsSome(CacheGet(ctxCache, k)) /\ IsSome(CacheGet(ctxCache, k)'))
              => CachedPreferences(k)' = CachedPreferences(k) ]_vars
  /\ [][ \A k \in Keys :
           (ctxDb'[k] # ctxDb[k] /\ IsSome(ctxDb'[k]))
              => (/\ IsSome(CacheGet(ctxCache, k))
                  /\ Val(ctxDb'[k]).preferences = CachedPreferences(k)) ]_vars

\* u1 changed the language to fr after the first turn; the second turn has
\* been recorded, and the cached context and its row still say en.
C32_Witness ==
  \E p \in Procs :
    LET k == KeyOf(p) IN
    /\ Completed(p, "chat") /\ reply[p] = ContentReply(p)
    /\ IsSome(usersDb[op[p].userId]) /\ Val(usersDb[op[p].userId]).language = "fr"
    /\ IsSome(CacheGet(prefCache, op[p].userId))
    /\ Val(CacheGet(prefCache, op[p].userId)).language = "fr"
    /\ Len(CachedHistory(k)) = 4
    /\ CachedPreferences(k).language = "en"
    /\ IsSome(ctxDb[k]) /\ Val(ctxDb[k]).preferences.language = "en"
    /\ Len(Val(ctxDb[k]).history) = 4

\* ------------------------------------------------- clear and create races
\* C33: a clear is final: when clearContext has completed for a key, the
\* turns the cache entry of the key held when the clear was invoked are in
\* the cache no more, and in conversation_contexts no more, whatever
\* completes afterwards.  Stated under RaceSpec.
C33_ClearIsFinal ==
  \A p \in Procs :
    ( /\ Completed(p, "clear") /\ reply[p].kind = "cleared"
      /\ IsSome(obs[p].before) )
    => LET old == HistoryContents(Val(obs[p].before).history)
           k == KeyOf(p)
       IN  /\ old \cap HistoryContents(CachedHistory(k)) = {}
           /\ IsSome(ctxDb[k]) => old \cap HistoryContents(Val(ctxDb[k]).history) = {}

\* C34: getContext writes the cache only when the key has no entry at the
\* moment of the write.  Stated under Spec.
C34_GetContextNeverOverwrites ==
  [][ \A p \in Procs :
        (pc[p] = "gc_set" /\ ctxCache' # ctxCache)
          => ~IsSome(CacheGet(ctxCache, KeyOf(p))) ]_vars

\* ------------------------------------------------ cooldown and concurrency
\* The command of the i-th interaction was executed.
Executed(i) == inflight[i].state \in {"executing", "done", "failed"}

\* C35: the cooldown check and the recording of the timestamp are one step:
\* of the invocations of one command by one user, whether or not earlier
\* ones are still executing, any two that are executed lie at least the
\* command's cooldown apart, so at most one is executed per window.  Stated
\* under GateSpec.
C35_AtMostOnePerWindow ==
  \A i, j \in DOMAIN inflight :
    ( /\ i < j /\ Executed(i) /\ Executed(j)
      /\ inflight[i].userId = inflight[j].userId
      /\ inflight[i].cmd = inflight[j].cmd )
    => inflight[j].at >= inflight[i].at + Cooldown(inflight[i].cmd) * 1000

\* While u1's /chat is executing, a second /chat of u1 has been rejected
\* and a third, after the window, is executing as well.
C35_Witness ==
  /\ Len(inflight) = 3
  /\ \A i \in 1..3 : inflight[i].userId = "u1" /\ inflight[i].cmd = "chat"
  /\ inflight[1].state = "executing"
  /\ inflight[2].state = "rejected" /\ inflight[2].at < inflight[1].at + CHAT_COOLDOWN * 1000
  /\ inflight[3].state = "executing"

\* The step changes the recorded timestamp of no (user, command) except,
\* possibly, that of (u, cmd).
OnlyStamp(u, cmd) ==
  \A cmd2 \in Commands, u2 \in Users :
    <<u2, cmd2>> # <<u, cmd>> =>
      cooldowns'[cmd2][CooldownKey(u2, cmd2)] = cooldowns[cmd2][CooldownKey(u2, cmd2)]

\* C36: the recorded timestamps change only in the step that dispatches an
\* invocation, and then only that of the invocation's (user, command), to
\* the time of the dispatch; a rejection and an unknown command change none.
\* The timestamp is recorded before the command runs: throughout the
\* execution, an execution that ended in the error reply included, it is
\* the time of the dispatch.  Stated under CoolSpec.
C36_StampOnlyOnDispatch ==
  /\ [][ cooldowns' # cooldowns =>
           /\ Invoked /\ Dispatched
           /\ OnlyStamp(op'["slash"].userId, op'["slash"].kind)
           /\ cooldowns'[op'["slash"].kind]
                        [CooldownKey(op'["slash"].userId, op'["slash"].kind)]
                = Some(dateNow) ]_vars
  /\ [][ (pc["slash"] = "idle" /\ pc'["slash"] = "done")
           => cooldowns' = cooldowns ]_vars
  /\ []( ( /\ pc["slash"] # "idle" /\ op["slash"].kind \in Commands
           /\ reply["slash"].kind # "wait" )
         => cooldowns[op["slash"].kind]
                     [CooldownKey(op["slash"].userId, op["slash"].kind)]
              = Some(dateNow) )

\* u1's only /chat failed (its context is cached with an empty history and
\* one call failed); a clock advance later u1's second /chat is rejected
\* and the timestamp is still that of the first.
C36_Witness ==
  /\ nops = 2 /\ faults = 1
  /\ pc["slash"] = "done" /\ reply["slash"].kind = "wait"
  /\ op["slash"].userId = "u1" /\ op["slash"].kind = "chat"
  /\ \A u \in Users, cmd \in Commands :
       IsSome(dispatched[<<u, cmd>>]) <=> <<u, cmd>> = <<"u1", "chat">>
  /\ \E c \in Channels :
       /\ IsSome(CacheGet(ctxCache, <<"u1", c>>))
       /\ CachedHistory(<<"u1", c>>) = <<>>
  /\ cooldowns["chat"][CooldownKey("u1", "chat")] = Some(dateNow - CoolTickStep)

\* ------------------------------------------------- cache and durable copy
\* No invocation is in flight.
Quiescent == \A p \in Procs : pc[p] \in {"idle", "done"}

\* C37: in a state with no invocation in flight and no failed call so far,
\* whenever a key has both a cache entry and a row in
\* conversation_contexts, the two hold the same history (both as the JSON
\* they were stored as).  Stated under Spec.
C37_CacheAndRowAgree ==
  (Quiescent /\ faults = 0) =>
    \A u \in Users, c \in Channels :
      (IsSome(CacheGet(ctxCache, <<u, c>>)) /\ IsSome(ctxDb[<<u, c>>]))
        => Val(CacheGet(ctxCache, <<u, c>>)).history = Val(ctxDb[<<u, c>>]).history

\* ---------------------------------------------------------- filtered events
\* A message the router is to ignore: written by a bot, without content, or
\* neither opening with the prefix or a mention of the bot nor sent as a DM.
FilteredMessage(m) ==
  \/ m.authorBot
  \/ RawContent(m) = <<>>
  \/ (m.lead.kind = "none" /\ m.place # "dm")

\* The step handles a message.
MessageArrives == pc["message"] = "idle" /\ pc'["message"] # "idle"

\* The step handles a voice-state event of the bot itself or without a user.
FilteredVoiceEvent == nvoice' # nvoice /\ vlast'.kind \in {"own", "nouser"}

\* C39: handling a filtered message returns at once (no call of the context
\* store or of the text service is made or left pending), sends no reply
\* and changes neither a store nor a session registry; handling a
\* voice-state event of the bot itself or without a user calls neither
\* join nor leave and changes nothing of these either.  Stated under
\* FilterSpec.
C39_FilteredEventsNoEffect ==
  /\ [][ (MessageArrives /\ FilteredMessage(msg')) =>
           /\ pc'["message"] = "done"
           /\ reply'["message"] = NoReply
           /\ obs'["message"].gwCalls = 0
           /\ UNCHANGED <<stores, reminders, voiceSessions, joined, pipeSessions>> ]_vars
  /\ [][ FilteredVoiceEvent =>
           /\ ~vlast'.joinCall /\ ~vlast'.left
           /\ UNCHANGED <<locals, stores, obs, reminders, voiceSessions, joined,
                          pipeSessions>> ]_vars

\* A voice-state event of the bot has been ignored and the unaddressed
\* guild message `hello` has been dropped without a reply.
C39_Witness ==
  /\ vlast.kind = "own"
  /\ pc["message"] = "done" /\ op["message"].kind = "ignored"
  /\ ~msg.authorBot /\ msg.place = "guild" /\ msg.lead.kind = "none"
  /\ msg.body = <<"hello">>
  /\ reply["message"] = NoReply

====
